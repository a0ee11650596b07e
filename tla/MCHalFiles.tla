----------------------------- MODULE MCHalFiles -----------------------------
(* Three descriptors beside the standard ones, an unknown name, and flags  *)
(* that hold a bit of the HAL's own.                                       *)
EXTENDS HalFiles

CONSTANT nodev

MCNames       == {alt_dev_null, jtag_uart_0, nodev}
MCOpenFlags   == {{}, {"O_WRONLY", "O_NONBLOCK", "ALT_FD_EXCL"}}
MCStatusFlags == {"O_NONBLOCK"}
=============================================================================
