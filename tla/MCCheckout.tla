----------------------------- MODULE MCCheckout -----------------------------
(* Checkout for TLC. *)
EXTENDS Checkout

\* One word for each command, and one that is none; a number out of range, and one
\* that is out of range until it is an int8_t.
SomeWords == {"help", "exit", "d", "s", "log", "unlog", "unlog_all", "ua"}
SomeNumbers == {-1, 0, 4, 5, 256}
=============================================================================
