-------------------------- MODULE MCDSStateMachine --------------------------
(***************************************************************************)
(* The two halves of an emergency call: a behaviour is one of              *)
(* DSStateMachine, in which with two handles one can be inactive on the    *)
(* list while the other waits, is granted or asks again, or of DsClient,   *)
(* by which LocApiV02 opens the call and starts it.                        *)
(***************************************************************************)
EXTENDS DSStateMachine

CONSTANTS h1, h2, ProfileLists, MaxWaits, MaxOpens

VARIABLES
    part,       \* "machine" or "client", chosen at the start
    pc, profiles, at, settings, found, pdp_type, waits, notifier, wds, left,
    unreleased, handle, before, outcome, sessions, opens

clientVars ==
    <<pc, profiles, at, settings, found, pdp_type, waits, notifier, wds, left,
      unreleased, handle, before, outcome, sessions, opens>>

Client == INSTANCE DsClient WITH
              list <- profiles, i <- at, refused <- unreleased, dsi <- sessions

ASSUME CallAssumption ==
    /\ MaxWaits \in Nat /\ MaxOpens \in Nat
    /\ \A profile \in ProfileLists : profile \in Seq(Client!Settings)

(* Every list of at most two profiles, with the settings of DsClient.       *)
MCProfiles == [emergency : {"absent", "no", "yes"},
               pdp : {"absent", "ipv4", "ipv6", "ipv4v6", "other"}]
MCProfileLists == UNION {[1..k -> MCProfiles] : k \in 0..2}

CallInit ==
    /\ Init /\ Client!Init
    /\ \/ part = "machine" /\ profiles = <<>>
       \/ part = "client"

CallNext ==
    /\ UNCHANGED part
    /\ \/ part = "machine" /\ Next /\ UNCHANGED clientVars
       \/ part = "client" /\ Client!Next /\ UNCHANGED vars

(* Fairness is the machine's (see Spec): in the other part it is idle.      *)
CallSpec ==
    /\ CallInit /\ [][CallNext]_<<part, vars, clientVars>>
    /\ WF_vars(MsgTask) /\ WF_vars(DataServices)
    /\ WF_vars(AgnssGrants \/ AgnssEnds)

(* See DsClient.                                                            *)
CallOpened == part = "client" => Client!CallInv
=============================================================================
