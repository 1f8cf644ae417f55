--------------------------------- MODULE MCUdp ---------------------------------
(* Two clients on one address and one elsewhere; bytes below 8, requests of *)
(* at most 5, in MULTI mode of 3.  The datagrams: one request, two, one     *)
(* that claims more than it holds, one that a worker fails on, less than a  *)
(* length (and with the next a length of 0), and a length that is too much. *)
EXTENDS Udp

MCClient == {<<1, 1>>, <<1, 2>>, <<2, 1>>}
MCPayload == {<<0, 3, 1>>, <<0, 2, 0, 3, 1>>, <<0, 4, 1>>,
              <<0, 4, 1, 1>>, <<0>>, <<1, 0>>}
=============================================================================
