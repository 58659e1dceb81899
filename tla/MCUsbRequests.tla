--------------------------- MODULE MCUsbRequests ---------------------------
EXTENDS UsbRequests

MCFirstReads == {8, 9, 64, 99, 255}
=============================================================================
