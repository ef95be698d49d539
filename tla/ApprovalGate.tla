---------------------------- MODULE ApprovalGate ----------------------------
(***************************************************************************)
(* What the Telegram approval gate promises, without slot, channel, timer  *)
(* or message ids (bot/mod.rs 13-16, bot/proposal.rs 65-72): at most one   *)
(* proposal is open; it ends once, granted or not; and it is granted only  *)
(* if the operator asked for that very proposal.                           *)
(***************************************************************************)
CONSTANTS
    Proposals,   \* everything that may ever be proposed
    NoProposal

VARIABLES
    open,     \* the proposal waiting for the operator, or NoProposal
    asked,    \* the proposals the operator asked to execute
    granted,  \* the proposals that were authorised
    refused   \* the proposals that ended without authorisation

gateVars == <<open, asked, granted, refused>>

GateInit ==
    /\ open = NoProposal
    /\ asked = {}
    /\ granted = {}
    /\ refused = {}

Open(p) ==
    /\ open = NoProposal
    /\ p \notin granted \cup refused
    /\ open' = p
    /\ UNCHANGED <<asked, granted, refused>>

(* The operator may ask late, and for proposals that are long gone. *)
Ask(p) ==
    /\ p = open \/ p \in granted \cup refused
    /\ asked' = asked \cup {p}
    /\ UNCHANGED <<open, granted, refused>>

Grant ==
    /\ open \in asked
    /\ granted' = granted \cup {open}
    /\ open' = NoProposal
    /\ UNCHANGED <<asked, refused>>

(* A timeout, a failed send or the death of the process. *)
Refuse ==
    /\ open # NoProposal
    /\ refused' = refused \cup {open}
    /\ open' = NoProposal
    /\ UNCHANGED <<asked, granted>>

GateNext ==
    \/ \E p \in Proposals : Open(p) \/ Ask(p)
    \/ Grant
    \/ Refuse

GateSpec == GateInit /\ [][GateNext]_gateVars

=============================================================================
