---------------------------- MODULE MCKvhDriver ----------------------------
(***************************************************************************)
(* Datagrams of four bits: a header 1 0, a status bit and its complement   *)
(* as the checksum.  Datagrams that overlap (1 0 0 1 0), false headers and *)
(* windows without a header but with a good checksum all happen.           *)
(***************************************************************************)
EXTENDS KvhDriver

MCHeader == <<1, 0>>
MCChecksumOk(w) == w[4] = 1 - w[3]
MCStatusOk(w) == w[3] = 1

=============================================================================
