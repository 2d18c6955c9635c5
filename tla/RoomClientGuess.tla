---------------------------- MODULE RoomClientGuess ----------------------------
(***************************************************************************)
(* RoomClient with a history variable: whether the membership that the     *)
(* client keeps is still the guess made after a lost answer.  The fields   *)
(* of the client do not tell: a newer call drops the pending question      *)
(* (beginMembershipOperation) and leaves the membership as it was guessed. *)
(***************************************************************************)
EXTENDS RoomClient

VARIABLE guess   \* history: the membership is a guess that nothing settled

(* The server told where the user is: in answer to the question or to a     *)
(* newer call that it granted, or by ending the only membership there was.  *)
Told ==
    /\ inbox # <<>> /\ inbox' = Tail(inbox) /\ connected'
    /\ LET m == Head(inbox)
       IN  \/ /\ m.type = "answer" /\ client.call[m.slot].current
              /\ \/ client.call[m.slot].op = "reconcile"
                 \/ client.call[m.slot].op \in Operation /\ m.ok
           \/ /\ m.type = "ended" /\ server.mine = None
              /\ client'.membership = "none"

(* The question is gone with nothing learned: a newer call took its place   *)
(* and came to nothing ...                                                  *)
NewerCallFails ==
    /\ client.operating \/ spent'.calls # spent.calls
    /\ ~client'.operating /\ client'.pending = "none" /\ ~Told

(* ... or the word of an earlier membership's end was taken for this one's. *)
OldWordTaken == client'.membership = "none" /\ ~Told

Remembers ==
    guess' = \/ client'.pending # "none"
             \/ guess /\ ~Told /\ ~NewerCallFails /\ ~OldWordTaken

(* The actions of Next, each with its history.                              *)
GuessNext ==
    \/ Retry /\ Remembers
    \/ createRoom /\ Remembers
    \/ leaveRoom /\ Remembers
    \/ dissolveRoom /\ Remembers
    \/ \E r \in Room : joinRoom(r) /\ Remembers
    \/ \E s \in Slot : JoinGoesOn(s) /\ Remembers
    \/ LossNoticed /\ Remembers
    \/ AnswerLate /\ Remembers
    \/ Receive /\ Remembers
    \/ Connect /\ Remembers
    \/ Disconnect /\ Remembers
    \/ Handle /\ Remembers
    \/ PutOut /\ Remembers
    \/ Evicted /\ Remembers
    \/ \E r \in Room : RoomEnds(r) /\ Remembers
    \/ \E r \in Room : GameStarts(r) /\ Remembers
    \/ \E r \in Room : BackToRoom(r) /\ Remembers

GuessInit == Init /\ guess = FALSE

GuessSpec ==
    /\ GuessInit
    /\ [][GuessNext]_<<vars, guess>>
    /\ Fairness

(* A membership that is a guess after a lost answer is found out: the       *)
(* question is asked until it is answered, over lost connections and lost   *)
(* answers, or a newer call settles it; unless that call comes to nothing   *)
(* or an old word is taken for the answer (README, "Exceptions built into   *)
(* the properties").                                                        *)
TruthComesOut == guess ~> ~guess
=============================================================================
