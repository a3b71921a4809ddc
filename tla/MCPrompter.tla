----------------------------- MODULE MCPrompter -----------------------------
(* The prompt of `serve` for TLC: two calls, two lines.                       *)
EXTENDS Prompter
=============================================================================
