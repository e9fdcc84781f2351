--------------------------- MODULE MCFrameworkPHY ---------------------------
(***************************************************************************)
(* The physical layer with two neighbours: packets of one and of two       *)
(* transmitters, of one and of two segments, in and out of this network,   *)
(* on frequencies of interest and off them; requests with and without      *)
(* each control message, one with 0 Hz.                                    *)
(***************************************************************************)
EXTENDS FrameworkPHY

Header(inBand, fixedGain, transmitters, segments) ==
  [inBand |-> inBand, fixedGain |-> fixedGain, bandwidth |-> 1,
   transmitters |-> transmitters, segments |-> segments]

MCHeaders == {
  Header(TRUE, TRUE, <<2>>, <<1>>),
  Header(TRUE, FALSE, <<2, 3>>, <<1, 2>>),
  Header(TRUE, TRUE, <<2, 3>>, <<1, 1>>),
  Header(FALSE, TRUE, <<2>>, <<1>>)}

Request(frequency, bandwidth, transmitters) ==
  [frequency |-> frequency, bandwidth |-> bandwidth, transmitters |-> transmitters,
   foi |-> {}, profile |-> FALSE]

MCControlFois == {[freqs |-> {1, 2}, bandwidth |-> 2]}

MCRequests == {
  Request({}, 0, {}),
  [Request({<<0, 2>>}, 1, {<<2>>}) EXCEPT !.foi = {[freqs |-> {1, 2}, bandwidth |-> 2]}],
  [Request({<<2>>}, 1, {<<2, 1>>}) EXCEPT !.profile = TRUE]}

MCInitialFoi == [freqs |-> {1}, bandwidth |-> 1]

MCEventNodes == {{2}, {1, 2, 3}}
=============================================================================
