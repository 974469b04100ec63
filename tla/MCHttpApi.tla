------------------------------ MODULE MCHttpApi ------------------------------
(* The instance of MCBooking, with requests as the handler makes them.     *)
EXTENDS HttpApi, MCBooking
=============================================================================
