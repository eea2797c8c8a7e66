------------------------------ MODULE RawSocket ------------------------------
(***************************************************************************)
(* The sockets of src/esmc/renesas/raw_socket.c.  raw_socket_open makes one *)
(* of all protocols and interfaces, binds it, attaches a packet filter and  *)
(* joins the multicast group, in that order: frames that come before the    *)
(* filter is attached are queued without it.  The filter is a program of 14 *)
(* instructions, one static array for all ports that is patched with the    *)
(* interface's own address; the kernel copies it, so each socket keeps the  *)
(* address it was opened with.                                              *)
(*                                                                         *)
(* A frame is the words the program reads, its length and the interface it  *)
(* is seen on; addresses are their upper 2 and lower 4 bytes, names stand   *)
(* for the lower ones.  A queue is the kinds of frames in it.               *)
(***************************************************************************)
EXTENDS Naturals

CONSTANTS
    RawPorts,      (* the ports                                              *)
    Address,       (* the address of each port's interface                   *)
    Lengths        (* the lengths of frames                                  *)

ASSUME RawAssumption ==
    /\ Address \in [RawPorts -> [hi : Nat, lo : STRING]]
    /\ Lengths \subseteq Nat

VARIABLES
    patched,     (* the address in g_rawsocket_filter                        *)
    sock,        (* the socket of each port                                  *)
    onWire       (* the frame on the wire, if any                            *)

rawVars == <<patched, sock, onWire>>

SlowMcast == [hi |-> 384, lo |-> "c2000002"]        (* 01:80:C2:00:00:02     *)
Unpatched == [hi |-> 43707, lo |-> "ccddeeff"]      (* AA:BB:CC:DD:EE:FF     *)
SlowProto == 34825                                  (* 0x8809                *)
MaxLength == 128
NoAddress == [hi |-> 0, lo |-> "none"]

(* "own" is the address in the kernel's copy of the filter. *)
Places    == {"closed", "unbound", "bound", "filtered", "open"}
Closed    == [at |-> "closed", own |-> NoAddress, queue |-> {}]

Known     == {Address[p] : p \in RawPorts} \cup {SlowMcast}
(* With each known address come those that share one of its words.          *)
Addresses == [hi : {a.hi : a \in Known}, lo : {a.lo : a \in Known}]
Frames    == [dst : Addresses, src : Addresses, proto : {SlowProto, 2048}, len : Lengths,
              on : RawPorts]

RawInit ==
    /\ patched = Unpatched
    /\ sock = [p \in RawPorts |-> Closed]
    /\ onWire = {}
-----------------------------------------------------------------------------
(* A jump skips t instructions if its test holds and f if it does not.      *)
Load(field)         == [op |-> "load", k |-> field, t |-> 0, f |-> 0]
Jump(test, k, t, f) == [op |-> test, k |-> k, t |-> t, f |-> f]
Return(accept)      == [op |-> "return", k |-> accept, t |-> 0, f |-> 0]

(* g_rawsocket_filter with its words 5 and 7 patched. *)
Program(own) == <<
    Load("dst.lo"), Jump("eq", SlowMcast.lo, 0, 11),
    Load("dst.hi"), Jump("eq", SlowMcast.hi, 0, 9),
    Load("src.lo"), Jump("eq", own.lo, 0, 2),
    Load("src.hi"), Jump("eq", own.hi, 5, 0),
    Load("proto"),  Jump("eq", SlowProto, 0, 3),
    Load("len"),    Jump("gt", MaxLength, 1, 0),
    Return(TRUE),   Return(FALSE) >>

Field(name, fr) ==
    CASE name = "dst.hi" -> fr.dst.hi [] name = "dst.lo" -> fr.dst.lo
      [] name = "src.hi" -> fr.src.hi [] name = "src.lo" -> fr.src.lo
      [] name = "proto"  -> fr.proto  [] name = "len"    -> fr.len

Test(i, acc) == IF i.op = "eq" THEN acc = i.k ELSE acc > i.k

Accumulated == {"dst.lo", "dst.hi", "src.lo", "src.hi", "proto", "len"}

(* One instruction, given what the run returns from each later one on; the  *)
(* accumulator is the field it was loaded from.                             *)
Instruction(prog, fr, run, pc) == [acc \in Accumulated |->
    LET i == prog[pc] IN
    CASE i.op = "return" -> i.k
      [] i.op = "load"   -> run[pc + 1][i.k]
      [] OTHER           -> run[pc + 1 + (IF Test(i, Field(acc, fr)) THEN i.t ELSE i.f)][acc]]

(* The kernel's run of a program: what it returns from each instruction on. *)
Run(prog, fr) ==
    LET run[pc \in 1 .. 14] == Instruction(prog, fr, run, pc)
    IN  run

Accepts(prog, fr) == Run(prog, fr)[1]["len"]
-----------------------------------------------------------------------------
(* raw_socket_open, run for one port at a time.  Each of its calls may fail *)
(* and then the socket is closed, with what was queued.                     *)

Opening(p) == sock[p].at \in {"unbound", "bound", "filtered"}

(* Mutant: the array is patched for the first port only. *)
RawOpen_PatchesOnce(p) ==
    /\ sock[p] = Closed /\ \A q \in RawPorts : ~Opening(q)
    /\ patched' = IF patched = Unpatched THEN Address[p] ELSE patched
    /\ \/ sock' = [sock EXCEPT ![p].at = "unbound"]
       \/ UNCHANGED sock
    /\ UNCHANGED onWire

(* The array is patched whether or not there will be a socket. *)
RawOpen(p) ==
    /\ sock[p] = Closed /\ \A q \in RawPorts : ~Opening(q)
    /\ patched' = Address[p]
    /\ \/ sock' = [sock EXCEPT ![p].at = "unbound"]
       \/ UNCHANGED sock
    /\ UNCHANGED onWire

RawBind(p) ==
    /\ sock[p].at = "unbound"
    /\ \/ sock' = [sock EXCEPT ![p].at = "bound"]
       \/ sock' = [sock EXCEPT ![p] = Closed]
    /\ UNCHANGED <<patched, onWire>>

RawAttach(p) ==
    /\ sock[p].at = "bound"
    /\ \/ sock' = [sock EXCEPT ![p].at = "filtered", ![p].own = patched]
       \/ sock' = [sock EXCEPT ![p] = Closed]
    /\ UNCHANGED <<patched, onWire>>

RawJoin(p) ==
    /\ sock[p].at = "filtered"
    /\ \/ sock' = [sock EXCEPT ![p].at = "open"]
       \/ sock' = [sock EXCEPT ![p] = Closed]
    /\ UNCHANGED <<patched, onWire>>

RawClose(p) ==
    /\ sock[p].at = "open"
    /\ sock' = [sock EXCEPT ![p] = Closed]
    /\ UNCHANGED <<patched, onWire>>

(* The application reads a frame. *)
RawReceive(p) ==
    /\ sock[p].at = "open"
    /\ \E kind \in sock[p].queue : sock' = [sock EXCEPT ![p].queue = @ \ {kind}]
    /\ UNCHANGED <<patched, onWire>>
-----------------------------------------------------------------------------
(* What the filter is for: the slow protocol frames of at most 128 bytes    *)
(* that others sent to the group on the port's interface.                   *)
Esmc(p, fr) ==
    /\ fr.on = p
    /\ fr.dst = SlowMcast /\ fr.src # Address[p]
    /\ fr.proto = SlowProto /\ fr.len <= MaxLength

Kind(p, fr) == IF Esmc(p, fr) THEN "esmc" ELSE "stray"

Attached(p) == sock[p].at \in {"filtered", "open"}

(* Binding leaves the frames of the protocol on the interface, the filter   *)
(* those it accepts.                                                        *)
Passes(p, fr) ==
    /\ sock[p].at # "closed"
    /\ sock[p].at # "unbound" => fr.on = p /\ fr.proto = SlowProto
    /\ Attached(p) => Accepts(Program(sock[p].own), fr)

NextFrame ==
    /\ onWire = {}
    /\ \E fr \in Frames : onWire' = {fr}
    /\ UNCHANGED <<patched, sock>>

(* An interface that has not joined the group may drop the frame. *)
Deliver ==
    /\ onWire' = {}
    /\ \E fr \in onWire, dropped \in SUBSET {p \in RawPorts : sock[p].at # "open"} :
         sock' = [p \in RawPorts |->
           IF Passes(p, fr) /\ p \notin dropped
           THEN [sock[p] EXCEPT !.queue = @ \cup {Kind(p, fr)}] ELSE sock[p]]
    /\ UNCHANGED patched

RawNext ==
    \/ NextFrame \/ Deliver
    \/ \E p \in RawPorts :
         RawOpen(p) \/ RawBind(p) \/ RawAttach(p) \/ RawJoin(p) \/ RawClose(p) \/ RawReceive(p)

RawSpec == RawInit /\ [][RawNext]_rawVars
-----------------------------------------------------------------------------
(* raw_socket.c:46-98 with 108-140: whatever ports are opened in what order,*)
(* and though the array is one for all and frames are queued unfiltered     *)
(* while a socket is opened, once the filter is attached no frame is queued *)
(* but those of others for the port, though they share a word of its        *)
(* address, and an open socket misses none of them.  (The comment at 54-56  *)
(* says that frames of less than 28 bytes are ignored, too; no instruction  *)
(* does that.)                                                              *)
FilterIsExact ==
    [][\A p \in RawPorts, fr \in onWire : Deliver =>
         /\ Attached(p) /\ "stray" \in sock'[p].queue => "stray" \in sock[p].queue
         /\ sock[p].at = "open" /\ Esmc(p, fr) => "esmc" \in sock'[p].queue]_rawVars
=============================================================================
