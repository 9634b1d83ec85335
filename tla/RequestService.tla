--------------------------- MODULE RequestService ---------------------------
(***************************************************************************)
(* What the HTTP server promises its clients, with no threads in it: the   *)
(* requests it accepts form one line, are served one at a time in the      *)
(* order of the line and are each run once; a request it turns away is     *)
(* turned away only because the service is stopping; the service closes    *)
(* only when the line is empty and nobody is being served.  Whether the    *)
(* bytes of an answer reach the client is not part of it.  ServerLoop is   *)
(* shown to implement this.                                                *)
(***************************************************************************)
EXTENDS Sequences

CONSTANTS
    Client,     \* the requests
    NoClient    \* nobody

VARIABLES
    accepting,  \* new requests may join the line
    open,       \* the model and its caches are in memory
    line,       \* accepted requests that wait
    serving,    \* the request being served, or NoClient
    answer      \* what each request got: "none" so far, "served", "refused"

svcVars == <<accepting, open, line, serving, answer>>

SvcInit ==
    /\ accepting = TRUE
    /\ open = TRUE
    /\ line = <<>>
    /\ serving = NoClient
    /\ answer = [c \in Client |-> "none"]

Join(c) ==
    /\ accepting
    /\ answer[c] = "none"
    /\ line' = Append(line, c)
    /\ UNCHANGED <<accepting, open, serving, answer>>

Refuse(c) ==
    /\ ~accepting
    /\ answer[c] = "none"
    /\ answer' = [answer EXCEPT ![c] = "refused"]
    /\ UNCHANGED <<accepting, open, line, serving>>

StartServing ==
    /\ open
    /\ serving = NoClient
    /\ line # <<>>
    /\ serving' = Head(line)
    /\ line' = Tail(line)
    /\ UNCHANGED <<accepting, open, answer>>

Answer ==
    /\ open
    /\ serving # NoClient
    /\ answer[serving] = "none"
    /\ answer' = [answer EXCEPT ![serving] = "served"]
    /\ serving' = NoClient
    /\ UNCHANGED <<accepting, open, line>>

StopAccepting ==
    /\ accepting' = FALSE
    /\ UNCHANGED <<open, line, serving, answer>>

CloseService ==
    /\ ~accepting
    /\ line = <<>> /\ serving = NoClient
    /\ open' = FALSE
    /\ UNCHANGED <<accepting, line, serving, answer>>

SvcNext ==
    \/ \E c \in Client : Join(c) \/ Refuse(c)
    \/ StartServing \/ Answer
    \/ StopAccepting \/ CloseService

SvcSpec == SvcInit /\ [][SvcNext]_svcVars
=============================================================================
