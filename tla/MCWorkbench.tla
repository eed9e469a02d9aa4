---------------------------- MODULE MCWorkbench ----------------------------
(***************************************************************************)
(* A decision from the evaluator to the page, on small instances.  Three   *)
(* seats that share nothing while they work: a session that evaluates a    *)
(* beam (BeamDecisions), the processes around the files of a decision      *)
(* (DecisionFiles), and the document that `gat workbench` exports once it  *)
(* has bound the decision (Instrument), which is offline: nothing that     *)
(* happens to the files afterwards reaches it.                             *)
(***************************************************************************)
EXTENDS Instrument, BeamDecisions, DecisionFiles, TLC

CONSTANTS wall, door, storey, structure, graph

VARIABLE seat

MCBeams == {"b1", "b2"}

(* Two beams of one batch, of which the first is the one that is checked;  *)
(* its strength and section may have been seen together.                   *)
Means(fy, z) == <<"b1", "fy">> :> fy @@ <<"b1", "z">> :> z
                  @@ <<"b2", "fy">> :> 9 @@ <<"b2", "z">> :> 2

Cov(f, s, both) ==
  LET Own(v) == CASE v = <<"b1", "fy">> -> f [] v = <<"b1", "z">> -> s [] OTHER -> 4
      With(v, u) == CASE {v, u} = {<<"b1", "fy">>, <<"b1", "z">>}  -> both
                      [] {v, u} = {<<"b1", "fy">>, <<"b2", "fy">>} -> 2
                      [] OTHER -> 0
      Vars == MCBeams \X {"fy", "z"}
  IN  [v \in Vars |-> [u \in Vars |-> IF u = v THEN Own(v) ELSE With(v, u)]]

B1Fy == <<"b1", "fy">>
B1Z  == <<"b1", "z">>
B2Fy == <<"b2", "fy">>

Check(beam, demand, confidence) ==
  [beam |-> beam, demand |-> demand, confidence |-> confidence]

MCChecks == {Check("b1", 20, 1), Check("b1", 20, 2), Check("b1", 36, 1), Check("b2", 20, 1)}

MCOperations ==
  {[op |-> "observe", target |-> v, value |-> 6] : v \in {B1Fy, B2Fy}} \cup
  {[op |-> "set_parameter", target |-> B1Fy, value |-> 10, variance |-> 8],
   [op |-> "shift_parameter", target |-> B1Z, delta |-> -3],
   [op |-> "scale_parameter", target |-> B2Fy, factor |-> 2]}

First     == [source |-> "snapshot", mean |-> Means(10, 4), cov |-> Cov(8, 2, 0)]

MCGenesis == {[First EXCEPT !.cov = Cov(8, 2, c)] : c \in {0, 2}}

(* The model file holds it, or what the good certificate makes of it.      *)
Posterior == Observed(First, B1Fy, 6)
MCModels  == {[mean |-> w.mean, cov |-> w.cov] : w \in {First, Posterior}}

Ask(id, operation, spelling, payload) ==
  [id |-> id, operation |-> operation, spelling |-> spelling, payload |-> payload]

Shift(delta) == [op |-> "shift_parameter", target |-> B1Z, delta |-> delta]

MCRequests ==
  {Ask(1, "summary", "m.ifc", [box |-> "none"]),
   Ask(1, "acceptance", "m.ifc", [box |-> "left"]), Ask(1, "acceptance", "m.ifc", [box |-> "right"]),
   Ask(2, "acceptance", "./m.ifc", [box |-> "left"]),
   Ask(1, "beam_assurance", "m.ifc", Check("b1", 20, 1)),
   Ask(2, "beam_assurance", "./m.ifc", Check("b1", 36, 1)),
   Ask(2, "change_impact", "./m.ifc", Shift(1)), Ask(2, "change_impact", "m.ifc", Shift(-5))}

MCSpellings    == {"m.ifc", "./m.ifc"}
MCGarbled      == [garbled |-> TRUE]
MCCertificates == {[beam |-> "b1", value |-> 6], [beam |-> "b1", value |-> -20],
                   [beam |-> "b2", value |-> 6], MCGarbled}

-----------------------------------------------------------------------------
NoSession == path = <<>> /\ cache = <<>> /\ results = {} /\ change = None
NoFiles   == /\ model = None /\ request = None /\ job = None
             /\ response = None /\ viewing = None /\ shown = None /\ writes = 0

MCInit ==
  /\ Init /\ hash = [mode |-> Unknown, entity |-> Nothing]
  /\ \/ seat = "session" /\ BeamInit /\ NoFiles
     \/ seat = "files" /\ FileInit /\ NoSession

(* The document is written, and opened in a browser, perhaps by a link.    *)
Export ==
  /\ seat = "files" /\ Drawn
  /\ seat' = "page"
  /\ model' = None /\ request' = None /\ job' = None
  /\ response' = None /\ viewing' = None /\ shown' = None /\ writes' = 0
  /\ hash' \in Hashes
  /\ UNCHANGED <<page, frame, edited, toPage, toFrame, crossed, acts, beamVars>>

MCNext ==
  \/ seat = "session" /\ BeamNext /\ UNCHANGED <<seat, fileVars, vars>>
  \/ seat = "files" /\ FileNext /\ UNCHANGED <<seat, beamVars, vars>>
  \/ Export
  \/ seat = "page" /\ Next /\ UNCHANGED <<seat, beamVars, fileVars>>

MCSpec == MCInit /\ [][MCNext]_<<seat, beamVars, fileVars, vars>>
            /\ WF_vars(seat = "page" /\ Scripts)

-----------------------------------------------------------------------------
(* Properties of the seats, where they are taken *)

(* Neither seat of a document echoes the other.                            *)
MessagesEnd == (seat = "page") ~> MessagesEnded
=============================================================================
