--------------------------- MODULE CommandContract ---------------------------
(***************************************************************************)
(* What a caller of the transport may rely on, whatever the interleaving   *)
(* of writers, reader and close: a command ends once, its frame is written *)
(* at most once and never after its end, callers that share a dispatch     *)
(* token write at most one frame between them, and a result is the reply   *)
(* to the caller's own frame.                                              *)
(***************************************************************************)
CONSTANTS Callers, Tokens, NoToken

VARIABLES
  status,   \* "idle", "open" or "settled"
  outcome,  \* how a settled command ended
  tok,      \* its dispatch token
  sent,     \* callers whose frame was written
  replied   \* callers whose frame Chrome answered

contractVars == <<status, outcome, tok, sent, replied>>

Endings == {"blocked", "reply", "refused", "failed", "timeout", "cancelled"}

Init ==
  /\ status = [c \in Callers |-> "idle"]
  /\ outcome = [c \in Callers |-> "none"]
  /\ tok = [c \in Callers |-> NoToken]
  /\ sent = {} /\ replied = {}

\* A command is refused or answered at once, or begins.
Submit(c, t) ==
  /\ status[c] = "idle"
  /\ tok' = [tok EXCEPT ![c] = t]
  /\ \/ /\ status' = [status EXCEPT ![c] = "open"]
        /\ UNCHANGED outcome
     \/ /\ status' = [status EXCEPT ![c] = "settled"]
        /\ \E o \in {"refused", "blocked"} : outcome' = [outcome EXCEPT ![c] = o]
  /\ UNCHANGED <<sent, replied>>

Send(c) ==
  /\ status[c] = "open" /\ c \notin sent
  /\ tok[c] # NoToken => \A d \in sent : tok[d] # tok[c]
  /\ sent' = sent \cup {c}
  /\ UNCHANGED <<status, outcome, tok, replied>>

Reply(c) ==
  /\ c \in sent
  /\ replied' = replied \cup {c}
  /\ UNCHANGED <<status, outcome, tok, sent>>

End(c, o) ==
  /\ status[c] = "open"
  /\ o = "reply" => c \in replied
  /\ o \in {"refused", "blocked"} => c \notin sent
  /\ status' = [status EXCEPT ![c] = "settled"]
  /\ outcome' = [outcome EXCEPT ![c] = o]
  /\ UNCHANGED <<tok, sent, replied>>

Next ==
  \E c \in Callers :
    \/ \E t \in Tokens \cup {NoToken} : Submit(c, t)
    \/ Send(c) \/ Reply(c)
    \/ \E o \in Endings : End(c, o)

Spec == Init /\ [][Next]_contractVars

=============================================================================
