---- MODULE LossyFifo ----
(* What the WebSocket client promises about the envelopes it accepts for        *)
(* sending: they leave in the order they were accepted, none leaves twice, and  *)
(* the only envelope a connection can lose is the one whose write broke it.     *)
(* WSClient is shown to implement this module.                                  *)
EXTENDS Integers, Sequences

VARIABLES
    accepted,   \* how many envelopes the client has taken responsibility for
    taken,      \* how many of them have left the queue, delivered or lost
    delivered,  \* what was handed to a connection: [id, conn], oldest first
    up,         \* a connection can carry envelopes now
    epoch       \* the number of connections made so far

vars == <<accepted, taken, delivered, up, epoch>>

Init ==
    /\ accepted = 0
    /\ taken = 0
    /\ delivered = <<>>
    /\ up = FALSE
    /\ epoch = 0

Accept ==
    /\ accepted' = accepted + 1
    /\ UNCHANGED <<taken, delivered, up, epoch>>

\* The oldest waiting envelope goes out on the current connection.
Deliver ==
    /\ up
    /\ taken < accepted
    /\ taken' = taken + 1
    /\ delivered' = Append(delivered, [id |-> taken + 1, conn |-> epoch])
    /\ UNCHANGED <<accepted, up, epoch>>

\* Losing the oldest envelope costs the connection.
Lose ==
    /\ up
    /\ taken < accepted
    /\ taken' = taken + 1
    /\ up' = FALSE
    /\ UNCHANGED <<accepted, delivered, epoch>>

Break ==
    /\ up
    /\ up' = FALSE
    /\ UNCHANGED <<accepted, taken, delivered, epoch>>

Connect ==
    /\ ~up
    /\ up' = TRUE
    /\ epoch' = epoch + 1
    /\ UNCHANGED <<accepted, taken, delivered>>

Next == Accept \/ Deliver \/ Lose \/ Break \/ Connect

Spec == Init /\ [][Next]_vars

----------------------------------------------------------------------------
\* One envelope handed to a connection.
Delivery == [id : Nat \ {0}, conn : Nat \ {0}]

TypeOK ==
    /\ accepted \in Nat
    /\ taken \in 0 .. accepted
    /\ delivered \in Seq(Delivery)
    /\ up \in BOOLEAN
    /\ epoch \in Nat

\* Envelopes go out in the order they were accepted, and none twice.
InOrder ==
    \A i, j \in DOMAIN delivered :
        i < j => /\ delivered[i].id < delivered[j].id
                 /\ delivered[i].conn <= delivered[j].conn

\* Between two envelopes that went out one after the other, at most one was
\* lost for each connection that ended in between; before the first, at most
\* one for each connection made earlier.
OneLossPerConnection ==
    /\ delivered # <<>> => delivered[1].id <= delivered[1].conn
    /\ \A i \in DOMAIN delivered :
         i + 1 \in DOMAIN delivered =>
            delivered[i + 1].id - delivered[i].id
               <= 1 + delivered[i + 1].conn - delivered[i].conn

\* What makes the two inductive: nothing delivered is ahead of what was taken,
\* and since the last delivery no more was lost than connections ended.
AtMostTaken ==
    \A i \in DOMAIN delivered : delivered[i].id <= taken /\ delivered[i].conn <= epoch

LossSoFar ==
    LET last == delivered[Len(delivered)] IN
    /\ delivered = <<>> => taken <= epoch /\ (up => taken < epoch)
    /\ delivered # <<>> => /\ taken - last.id <= epoch - last.conn + 1
                           /\ up => taken - last.id <= epoch - last.conn

Inv ==
    /\ TypeOK
    /\ up => epoch > 0
    /\ InOrder
    /\ OneLossPerConnection
    /\ AtMostTaken
    /\ LossSoFar
====
