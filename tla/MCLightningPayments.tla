------------------------ MODULE MCLightningPayments ------------------------
EXTENDS LightningPayments
=============================================================================
