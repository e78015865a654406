------------------------------ MODULE MCDevice ------------------------------
EXTENDS Device

MCSize == {"coarse", "fine"}
MCWindow == {"small", "large"}
=============================================================================
