------------------------------- MODULE MCHost -------------------------------
(***************************************************************************)
(* Parts of the daemon of which safety is checked, side by side: the rules *)
(* of the host network, the identity of a VM, commands run in a guest, the *)
(* format of the events a guest sends, and the object tier for snapshots.  *)
(* They share no state, so a behaviour runs one of them and leaves the     *)
(* others as they start.                                                   *)
(***************************************************************************)
EXTENDS NetworkRules, Svid, GuestExec, EventWire, SnapshotStore

VARIABLE part

allVars == <<part, ruleVars, svidVars, execVars, wireVars, vars>>

-----------------------------------------------------------------------------
(* Values of the constants                                                 *)

P(dns, proxy, only, rules, default) ==
  [dns |-> dns, proxy |-> proxy, proxyOnly |-> only, rules |-> rules, default |-> default]

MCPolicies ==
  { P(TRUE, FALSE, FALSE, <<"web">>, "deny"), P(FALSE, TRUE, TRUE, <<"web">>, "deny"),
    P(FALSE, FALSE, FALSE, <<>>, "allow"), P(FALSE, FALSE, TRUE, <<>>, "deny") }

MCForwards == << [host |-> 1, port |-> 1], [host |-> 2, port |-> 1] >>

\* Ids that fill their field and that do not; payloads that are empty, look like a length or are
\* as large as can be; keys and values that are empty and as long as can be, a key once or twice.
MCEvents ==
  LET Entry == [key : {[i \in 1..n |-> 1] : n \in 0..MaxKey}, value : {<<>>, [i \in 1..MaxValue |-> 2]}] IN
  [vm : {[i \in 1..n |-> 1] : n \in 1..IDSize}, session : {<<1>>}, time : {7}, type : {4},
   payload : {<<>>, <<0>>, [i \in 1..MaxPayload |-> 1]}, metadata : UNION {[1..n -> Entry] : n \in 0..MaxEntries}]

-----------------------------------------------------------------------------
(* The sum                                                                 *)

\* Of a part that does not run, one initial state is enough.
HostInit ==
  /\ part \in {"rules", "svid", "exec", "wire", "store"}
  /\ RulesInit /\ SvidInit /\ ExecInit /\ WireInit /\ Init
  /\ part # "rules" => \A v \in NetVMs : policy[v].default = "allow"
  /\ part # "svid" => document = 0
  /\ part # "exec" => code = "0"
  /\ part # "store" => \A g \in Gets, f \in Files : dest[g][f] = Absent

HostNext ==
  \/ part = "rules" /\ RulesNext /\ UNCHANGED <<part, svidVars, execVars, wireVars, vars>>
  \/ part = "svid" /\ SvidNext /\ UNCHANGED <<part, ruleVars, execVars, wireVars, vars>>
  \/ part = "exec" /\ ExecNext /\ UNCHANGED <<part, ruleVars, svidVars, wireVars, vars>>
  \/ part = "wire" /\ WireNext /\ UNCHANGED <<part, ruleVars, svidVars, execVars, vars>>
  \/ part = "store" /\ Next /\ UNCHANGED <<part, ruleVars, svidVars, execVars, wireVars>>

HostSpec == HostInit /\ [][HostNext]_allVars
=============================================================================
