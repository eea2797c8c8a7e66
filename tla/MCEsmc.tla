-------------------------------- MODULE MCEsmc --------------------------------
(* A small instance of Esmc.  QLs: 1 is usable, 2 the oscillator's, 3 "do   *)
(* not use", 4 E_esmc_ql_max.                                               *)
EXTENDS Esmc

ThreeClocks == {[eEEC |-> 2, EEC |-> 1]}
NoOrAll    == {{}, {1}}
=============================================================================
