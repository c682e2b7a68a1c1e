------------------------------- MODULE Option -------------------------------
(* The None of Rust's Option; Some(v) is v itself.                         *)
CONSTANT None
=============================================================================
