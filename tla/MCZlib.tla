------------------------------- MODULE MCZlib -------------------------------
(* Sources of up to five blocks of three bytes. *)
EXTENDS Zlib

MCSizes == 0..14
=============================================================================
