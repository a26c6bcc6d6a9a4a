----------------------------- MODULE MCExchange -----------------------------
(* Exchange with a small number of requests per connection.                 *)
EXTENDS Exchange
=============================================================================
