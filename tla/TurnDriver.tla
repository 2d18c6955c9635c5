----------------------------- MODULE TurnDriver -----------------------------
(***************************************************************************)
(* Who moves a game on when nobody does: the turn timer, the bots' timers, *)
(* autopilot and autoplay (ws/room-events.ts, ws/socket-handler.ts,        *)
(* ws/bot-uno-watcher.ts, ws/game-events.ts, game/turn-timer.ts).          *)
(*                                                                         *)
(* The events of connected humans change the game at once, without the     *)
(* room lock, and dispatch the next driver only after their projections.   *)
(* Everything else works under the lock, held across its own awaits.  Of   *)
(* the game only the player to act is kept, and whether it changed since   *)
(* somebody looked; of a timer, its generation or its handle, only whether *)
(* it is still the current one.  Delays are left out.                      *)
(***************************************************************************)
EXTENDS Naturals

CONSTANTS
    Human, Bot,
    None,        \* no player, no driver
    Leaver,      \* the humans who may disconnect or leave
    Delegator,   \* the humans who may turn their autopilot on and off
    JumpInRules, \* the values of the house rule jumpIn that are considered
    AutoAutopilotThreshold,  \* AUTO_AUTOPILOT_THRESHOLD
    MaxActs      \* bound: actions that executeAutopilot takes in one call

Player == Human \cup Bot
BotJumpIn == "botJumpIn"   \* the jump-in timer's onTurnChange, among pending

ASSUME PlayerAssumption ==
    /\ Human \cap Bot = {} /\ None \notin Player \cup {BotJumpIn}
    /\ BotJumpIn \notin Human
    /\ Leaver \subseteq Human /\ Delegator \subseteq Human
ASSUME BoundAssumption ==
    /\ JumpInRules \subseteq BOOLEAN
    /\ AutoAutopilotThreshold \in Nat \ {0} /\ MaxActs \in Nat \ {0}

VARIABLES
    game,       \* "live", "stored" (the process restarted) or "gone"
    jumpIn,     \* the house rule of this game
    actor,      \* getAutopilotActionPlayerId; None: the round is over
    beat,       \* history: flips with every action that is applied
    announced,  \* roundEndTimestamps.has(room)
    connected, autopilot,  \* of the players
    timeouts,   \* timeoutCounts.get(room)
    timer,      \* the turn timer, and whether it was armed in this turn
    botTimer,   \* botTurnTimers.has(room)
    botJumpIn,  \* a jump-in timer armed for the game as it is now
    botCatch,   \* a timer of a bot that wants to catch a player
    humanJumpIn,\* autopilotJumpInTimers.has(room)
    autoPlay,   \* the humans with an interval in autoPlayIntervals
    grace,      \* the humans with a timer in disconnectTimers
    pending,    \* those whose action is applied and waits for projections
    holder      \* the callback that holds the room lock

settings == <<game, jumpIn>>
players == <<connected, autopilot, timeouts>>
drivers == <<timer, botTimer>>
extras == <<botCatch, humanJumpIn, autoPlay, grace>>
vars == <<settings, actor, beat, announced, players, drivers, botJumpIn, extras,
          pending, holder>>

Idle == [who |-> "nobody", for |-> None, at |-> "rest", valid |-> TRUE,
         same |-> TRUE, acts |-> 0]
Stopped == [is |-> "stopped", kind |-> "turn", onTime |-> FALSE]

Driving == {"overdue", "immediate", "bot", "botJumpIn", "humanJumpIn",
            "autoplay", "once", "leave"}

TypeOK ==
    /\ game \in {"live", "stored", "gone"} /\ jumpIn \in JumpInRules
    /\ actor \in Player \cup {None}
    /\ {beat, announced, botTimer, botJumpIn, botCatch, humanJumpIn} \subseteq BOOLEAN
    /\ connected \in [Player -> BOOLEAN] /\ autopilot \in [Player -> BOOLEAN]
    /\ timeouts \in [Player -> 0..AutoAutopilotThreshold]
    /\ timer \in [is : {"stopped", "armed", "fired"}, kind : {"turn", "immediate"},
                  onTime : BOOLEAN]
    /\ autoPlay \subseteq Human /\ grace \subseteq Human
    /\ pending \subseteq Human \cup {BotJumpIn}
    /\ holder \in [who : Driving \cup {"nobody"}, for : Player \cup {None},
                   at : {"rest", "thinking", "acting", "projecting", "telling"},
                   valid : BOOLEAN, same : BOOLEAN, acts : 0..MaxActs]
    /\ holder.who = "nobody" <=> holder.at = "rest"
    /\ announced => actor = None

Live == game = "live"
Free == holder.who = "nobody"
Holds(who) == holder.who = who

-----------------------------------------------------------------------------
(* An action is applied: a is to act next.  Who compares fingerprints sees  *)
(* that the game changed; a jump-in scheduled for the old state is void.    *)
Applied(a) ==
    /\ actor' = a
    /\ beat' = ~beat
    /\ botJumpIn' = FALSE

(* The turn timer, when a is to act next: turnStartedAt moves on.           *)
Running(a) == [timer EXCEPT !.onTime = @ /\ a = actor]

(* only executeAutopilot, autoplay and an RL bot compare.                   *)
Overtaken ==
    IF holder.at \in {"acting", "thinking"} \/ Holds("autoplay")
    THEN [holder EXCEPT !.same = FALSE] ELSE holder

(* Generations and handles are void from now on, for callbacks that check.  *)
Voided ==
    IF holder.who \in {"overdue", "immediate", "bot"}
    THEN [holder EXCEPT !.valid = FALSE] ELSE holder

(* startTurnTimer, when a is to act and auto are the autopilot flags.       *)
\* Faulty: the turn timer runs on while a bot thinks.
FaultystartTurnTimer(a, auto) ==
    IF a \in Bot /\ ~auto[a]
    THEN UNCHANGED timer /\ botTimer' = TRUE
    ELSE /\ botTimer' = FALSE
         /\ timer' = IF a = None THEN Stopped
                     ELSE [is |-> "armed", onTime |-> TRUE,
                           kind |-> IF auto[a] THEN "immediate" ELSE "turn"]

startTurnTimer(a, auto) ==
    IF a \in Bot /\ ~auto[a]
    THEN timer' = Stopped /\ botTimer' = TRUE
    ELSE /\ botTimer' = FALSE
         /\ timer' = IF a = None THEN Stopped
                     ELSE [is |-> "armed", onTime |-> TRUE,
                           kind |-> IF auto[a] THEN "immediate" ELSE "turn"]

(* emitTerminalStateIfNeededUnlocked, once the round is over: nothing that  *)
(* drives the round is left, and only the first to come announces it.       *)
\* Faulty: a bot's timer outlives its round.
FaultyAnnounce ==
    IF announced
    THEN UNCHANGED <<announced, drivers, timeouts, botJumpIn, botCatch>>
    ELSE /\ announced' = TRUE
         /\ timer' = Stopped /\ UNCHANGED botTimer
         /\ botJumpIn' = FALSE /\ botCatch' = FALSE
         /\ timeouts' = [p \in Player |-> 0]

Announce ==
    IF announced
    THEN UNCHANGED <<announced, drivers, timeouts, botJumpIn, botCatch>>
    ELSE /\ announced' = TRUE
         /\ timer' = Stopped /\ botTimer' = FALSE
         /\ botJumpIn' = FALSE /\ botCatch' = FALSE
         /\ timeouts' = [p \in Player |-> 0]

(* scheduleAutopilotJumpIn, which only a played card brings about.          *)
scheduleAutopilotJumpIn == humanJumpIn' \in {humanJumpIn, jumpIn}

-----------------------------------------------------------------------------
(* The events of humans, without the lock.                                  *)

(* game:play_card, pass, challenge, accept, choose_color, choose_swap_target*)
(* and a draw that ends a penalty; out of turn only by jumping in.          *)
Plays(h, a) ==
    /\ Live /\ actor # None /\ connected[h] /\ h \notin pending
    /\ actor = h \/ jumpIn
    /\ Applied(a)
    /\ timer' = Running(a)
    /\ timeouts' = [timeouts EXCEPT ![h] = 0]
    /\ pending' = pending \cup {h}
    /\ holder' = Overtaken
    /\ UNCHANGED <<settings, announced, connected, autopilot, botTimer, extras>>

(* game:catch_uno: the one who is caught draws at once.                     *)
Catches(h, target) ==
    /\ Live /\ actor # None /\ connected[h] /\ h \notin pending
    /\ target # h
    /\ Applied(target)
    /\ timer' = Running(target)
    /\ pending' = pending \cup {h}
    /\ holder' = Overtaken
    /\ UNCHANGED <<settings, announced, players, botTimer, extras>>

(* game:draw_card otherwise: its handler starts no timer, although the draw *)
(* may hand the turn on, by a forced play of the drawn card or because the  *)
(* last penalty card starts the queued penalty of another player.  It ends  *)
(* no round: a card played by force leaves those held before.               *)
Draws(h, a) ==
    /\ Live /\ actor = h /\ connected[h]
    /\ Applied(a)
    /\ timer' = Running(a)
    /\ timeouts' = [timeouts EXCEPT ![h] = 0]
    /\ holder' = Overtaken
    /\ UNCHANGED <<settings, announced, connected, autopilot, botTimer, extras, pending>>

(* game:call_uno starts no timer either.                                    *)
CallsUno(h) ==
    /\ Live /\ actor # None /\ connected[h]
    /\ Applied(actor)
    /\ holder' = Overtaken
    /\ UNCHANGED <<settings, announced, players, drivers, extras, pending>>

(* driveCommittedActionPostcommit, after the projections: a round that is   *)
(* over is announced under the lock, else the next driver is dispatched.    *)
Dispatches(p) ==
    /\ p \in pending /\ Live /\ actor # None
    /\ pending' = pending \ {p}
    /\ startTurnTimer(actor, autopilot)
    /\ holder' = Voided
    /\ scheduleAutopilotJumpIn
    /\ UNCHANGED <<settings, actor, beat, announced, players, botJumpIn, botCatch,
                   autoPlay, grace>>

\* Faulty: a bot that jumped in only sees to the next turn.
FaultyDispatchesEnd(p) ==
    /\ p \in pending /\ Live /\ actor = None /\ Free
    /\ pending' = pending \ {p}
    /\ IF p = BotJumpIn
       THEN UNCHANGED <<announced, drivers, timeouts, botJumpIn, botCatch>>
       ELSE Announce
    /\ UNCHANGED <<settings, actor, beat, connected, autopilot, humanJumpIn,
                   autoPlay, grace, holder>>

DispatchesEnd(p) ==
    /\ p \in pending /\ Live /\ actor = None /\ Free
    /\ pending' = pending \ {p}
    /\ Announce
    /\ UNCHANGED <<settings, actor, beat, connected, autopilot, humanJumpIn,
                   autoPlay, grace, holder>>

-----------------------------------------------------------------------------
(* The callers of executeAutopilot.                                         *)
Autopilot == {"overdue", "immediate", "autoplay", "once"}

(* Callbacks that act for a player, under the lock: p acts, a is next; an   *)
(* action that ends the turn is the last.                                   *)
Acts(p, a, n) == IF a = p THEN n ELSE MaxActs

Drive(who, p, a) ==
    /\ Applied(a)
    /\ holder' = [who |-> who, for |-> p, valid |-> TRUE, same |-> TRUE,
                  acts |-> IF who \in Autopilot THEN Acts(p, a, 1) ELSE 0,
                  at |-> IF who \in Autopilot THEN "acting" ELSE "projecting"]

(* A callback that has nothing to act for dispatches again.                 *)
DispatchAgain ==
    /\ startTurnTimer(actor, autopilot)
    /\ holder' = Idle
    /\ UNCHANGED <<settings, actor, beat, announced, players, botJumpIn, extras, pending>>

Fires ==
    /\ timer.is = "armed"
    /\ timer' = [timer EXCEPT !.is = "fired"]
    /\ UNCHANGED <<settings, actor, beat, announced, players, botTimer, botJumpIn,
                   extras, pending, holder>>

ImmediatePlayer == IF actor # None /\ autopilot[actor] THEN actor ELSE None

(* The callback of turnTimer.start, when its generation is still current.   *)
TurnCallback ==
    /\ timer.is = "fired" /\ Free
    /\ LET pid == IF timer.kind = "immediate" THEN ImmediatePlayer ELSE actor
           who == IF timer.kind = "immediate" THEN "immediate" ELSE "overdue"
       IN  \/ pid = None /\ DispatchAgain
           \/ /\ pid # None
              /\ \E a \in Player \cup {None} : Drive(who, pid, a)
              /\ timer' = Stopped
              /\ scheduleAutopilotJumpIn
              /\ UNCHANGED <<settings, announced, players, botTimer, botCatch,
                             autoPlay, grace, pending>>

(* executeAutopilot goes on after a pause, if nothing came in between.      *)
Continues ==
    /\ holder.at = "acting" /\ holder.valid /\ holder.same
    /\ actor = holder.for /\ holder.acts < MaxActs
    /\ \E a \in Player \cup {None} :
        /\ Applied(a)
        /\ timer' = Running(a)
        /\ holder' = [holder EXCEPT !.acts = Acts(holder.for, a, @ + 1)]
    /\ scheduleAutopilotJumpIn
    /\ UNCHANGED <<settings, announced, players, botTimer, botCatch, autoPlay, grace,
                   pending>>

(* executeAutopilot is over.  Interrupted between a wild card and its color *)
(* it reports that it did not act; autoplay and autopilot_once then leave   *)
(* it at that.                                                              *)
Stops ==
    /\ holder.at = "acting"
    /\ LET done == [holder EXCEPT !.at = "projecting", !.same = TRUE, !.acts = 0]
       IN  holder' \in
              CASE holder.who \in {"overdue", "immediate"} ->
                            {IF holder.valid THEN done ELSE Idle}
                     [] OTHER -> {done}
                                \cup IF holder.same \/ holder.acts = MaxActs THEN {} ELSE {Idle}
    /\ UNCHANGED <<settings, actor, beat, announced, players, drivers, botJumpIn,
                   extras, pending>>

(* The bot's timer.  The strategy of an RL bot is asked first.              *)
BotMayPlay == actor # None /\ (actor \in Bot \/ autopilot[actor])

BotCallback ==
    /\ botTimer /\ Free
    /\ \/ ~BotMayPlay /\ DispatchAgain
       \/ /\ BotMayPlay
          /\ \E a \in Player \cup {None} : Drive("bot", actor, a) /\ timer' = Running(a)
          /\ scheduleAutopilotJumpIn
          /\ UNCHANGED <<settings, announced, players, botTimer, botCatch, autoPlay,
                         grace, pending>>
       \/ /\ BotMayPlay /\ actor \in Bot
          /\ holder' = [Idle EXCEPT !.who = "bot", !.for = actor, !.at = "thinking"]
          /\ UNCHANGED <<settings, actor, beat, announced, players, drivers, botJumpIn,
                         extras, pending>>

BotDecides ==
    /\ holder.at = "thinking"
    /\ \/ /\ ~holder.valid
          /\ holder' = Idle
          /\ UNCHANGED <<settings, actor, beat, announced, players, drivers, botJumpIn,
                         extras, pending>>
       \/ holder.valid /\ ~holder.same /\ DispatchAgain
       \/ /\ holder.valid /\ holder.same
          /\ \E a \in Player \cup {None} : Drive("bot", actor, a) /\ timer' = Running(a)
          /\ scheduleAutopilotJumpIn
          /\ UNCHANGED <<settings, announced, players, botTimer, botCatch, autoPlay,
                         grace, pending>>

(* checkBotJumpIn's timer: the bot jumps in, or finds that it cannot.       *)
JumpInCallback ==
    /\ botJumpIn /\ Free /\ actor # None
    /\ \/ /\ \E p \in Bot \ {actor}, a \in Player \cup {None} :
                Drive("botJumpIn", p, a) /\ timer' = Running(a)
          /\ UNCHANGED pending
       \/ /\ pending' = pending \cup {BotJumpIn}
          /\ botJumpIn' = FALSE
          /\ UNCHANGED <<actor, beat, timer, holder>>
    /\ UNCHANGED <<settings, announced, players, botTimer, extras>>

(* scheduleAutopilotJumpIn's timer: a human on autopilot jumps in.          *)
HumanJumpInCallback ==
    /\ humanJumpIn /\ Free
    /\ humanJumpIn' = FALSE
    /\ \/ UNCHANGED <<actor, beat, timer, botJumpIn, holder>>
       \/ /\ actor # None
          /\ \E p \in Player, a \in Player \cup {None} :
                autopilot[p] /\ Drive("humanJumpIn", p, a) /\ timer' = Running(a)
    /\ UNCHANGED <<settings, announced, players, botTimer, botCatch, autoPlay, grace,
                   pending>>

(* checkBotUnoCatch's timer: the target draws, nobody is dispatched.        *)
CatchCallback ==
    /\ botCatch /\ Free
    /\ botCatch' = FALSE
    /\ \/ UNCHANGED <<actor, beat, timer, botJumpIn>>
       \/ /\ actor # None
          /\ \E bot \in Bot : \E target \in Player \ {bot} :
                Applied(target) /\ timer' = Running(target)
    /\ UNCHANGED <<settings, announced, players, botTimer, humanJumpIn, autoPlay, grace,
                   pending, holder>>

(* The interval of startAutoPlay.                                           *)
AutoPlayCallback(h) ==
    /\ h \in autoPlay /\ Free
    /\ \/ /\ actor = None
          /\ autoPlay' = autoPlay \ {h}
          /\ UNCHANGED <<actor, beat, timer, botJumpIn, humanJumpIn, holder>>
       \/ /\ actor = h
          /\ \E a \in Player \cup {None} : Drive("autoplay", h, a) /\ timer' = Running(a)
          /\ scheduleAutopilotJumpIn
          /\ UNCHANGED autoPlay
    /\ UNCHANGED <<settings, announced, players, botTimer, botCatch, grace, pending>>

(* game:autopilot_once, in turn or by jumping in.                           *)
AutopilotOnce(h) ==
    /\ Live /\ Free /\ actor # None /\ connected[h] /\ ~autopilot[h]
    /\ actor = h \/ jumpIn
    /\ \E a \in Player \cup {None} : Drive("once", h, a) /\ timer' = Running(a)
    /\ scheduleAutopilotJumpIn
    /\ UNCHANGED <<settings, announced, players, botTimer, botCatch, autoPlay, grace,
                   pending>>

-----------------------------------------------------------------------------
(* What the holder of the lock does after its projections.                  *)

AnnouncesEnd ==
    /\ holder.at = "projecting" /\ actor = None
    /\ holder.who \notin {"botJumpIn", "leave"}
    /\ Announce
    /\ autoPlay' = IF Holds("autoplay") THEN autoPlay \ {holder.for} ELSE autoPlay
    /\ holder' = Idle
    /\ UNCHANGED <<settings, actor, beat, connected, autopilot, humanJumpIn, grace, pending>>

(* The timed-out player's count; at the threshold the server turns          *)
(* autopilot on and tells the room first.                                   *)
incrementTimeoutAndAutoAutopilot(p) ==
    LET count == IF timeouts[p] < AutoAutopilotThreshold THEN timeouts[p] + 1 ELSE timeouts[p]
        enable == count >= AutoAutopilotThreshold /\ ~autopilot[p]
    IN  /\ timeouts' = [timeouts EXCEPT ![p] = count]
        /\ autopilot' = [autopilot EXCEPT ![p] = @ \/ enable]
        /\ IF enable
           THEN holder' = [holder EXCEPT !.at = "telling"] /\ UNCHANGED drivers
           ELSE /\ holder' = Idle
                /\ IF holder.valid THEN startTurnTimer(actor, autopilot') ELSE UNCHANGED drivers

CountsTimeout ==
    /\ holder.at = "projecting" /\ actor # None /\ Holds("overdue")
    /\ incrementTimeoutAndAutoAutopilot(holder.for)
    /\ UNCHANGED <<settings, actor, beat, announced, connected, botJumpIn, extras, pending>>

Tells ==
    /\ holder.at = "telling"
    /\ holder' = Idle
    /\ IF holder.valid THEN startTurnTimer(actor, autopilot) ELSE UNCHANGED drivers
    /\ UNCHANGED <<settings, actor, beat, announced, players, botJumpIn, extras, pending>>

(* autoplay dispatches only if nothing happened during its projections; one *)
(* who leaves only if it was his turn when he asked.                        *)
HandsOn ==
    /\ holder.at = "projecting" /\ holder.who \notin {"overdue", "bot", "botJumpIn"}
    /\ actor # None \/ Holds("leave")
    /\ holder' = Idle
    /\ IF (Holds("autoplay") /\ ~holder.same) \/ (Holds("leave") /\ holder.acts = 0)
       THEN UNCHANGED drivers
       ELSE startTurnTimer(actor, autopilot)
    /\ humanJumpIn' \in {humanJumpIn, humanJumpIn \/ (jumpIn /\ Holds("humanJumpIn"))}
    /\ UNCHANGED <<settings, actor, beat, announced, players, botJumpIn, botCatch,
                   autoPlay, grace, pending>>

(* The end of a bot's turn: its handle is given up; where a bot may jump in *)
(* the next driver is left to the jump-in timer.                            *)
BotHandsOn ==
    /\ holder.at = "projecting" /\ actor # None /\ Holds("bot")
    /\ holder' = Idle
    /\ IF holder.valid
       THEN /\ botCatch' \in {botCatch, TRUE}
            /\ \/ /\ jumpIn /\ \E p \in Bot : p # actor
                  /\ botTimer' = FALSE /\ botJumpIn' = TRUE
                  /\ UNCHANGED timer
               \/ startTurnTimer(actor, autopilot) /\ UNCHANGED botJumpIn
       ELSE UNCHANGED <<drivers, botJumpIn, botCatch>>
    /\ UNCHANGED <<settings, actor, beat, announced, players, humanJumpIn, autoPlay,
                   grace, pending>>

(* A bot that jumped in releases the lock before it calls onTurnChange.     *)
JumpInHandsOn ==
    /\ holder.at = "projecting" /\ Holds("botJumpIn")
    /\ holder' = Idle
    /\ pending' = pending \cup {BotJumpIn}
    /\ UNCHANGED <<settings, actor, beat, announced, players, drivers, botJumpIn, extras>>

-----------------------------------------------------------------------------
(* Connections and autopilot, under the lock.                               *)

(* player:toggle-autopilot.  The turn timer stays as it is.                 *)
Toggles(h) ==
    /\ Live /\ Free /\ h \in Delegator /\ connected[h]
    /\ autopilot' = [autopilot EXCEPT ![h] = ~@]
    /\ autoPlay' = IF autopilot[h] THEN autoPlay \ {h} ELSE autoPlay \cup {h}
    /\ timeouts' = IF autopilot[h] THEN [timeouts EXCEPT ![h] = 0] ELSE timeouts
    /\ UNCHANGED <<settings, actor, beat, announced, connected, drivers, botJumpIn,
                   botCatch, humanJumpIn, grace, pending, holder>>

TwoConnected(on) == \E p \in Player : \E q \in Player \ {p} : on[p] /\ on[q]

(* disconnect: with less than two players left the turn timer is stopped.   *)
Disconnects(h) ==
    /\ Live /\ Free /\ h \in Leaver /\ connected[h]
    /\ connected' = [connected EXCEPT ![h] = FALSE]
    /\ timer' = IF TwoConnected(connected') THEN timer ELSE Stopped
    /\ grace' = grace \cup {h}
    /\ UNCHANGED <<settings, actor, beat, announced, autopilot, timeouts, botTimer,
                   botJumpIn, botCatch, humanJumpIn, autoPlay, pending, holder>>

(* scheduleActivePlayerGovernance's timer.                                  *)
GraceEnds(h) ==
    /\ h \in grace /\ Free
    /\ grace' = grace \ {h}
    /\ IF connected[h]
       THEN UNCHANGED <<autopilot, autoPlay>>
       ELSE /\ autopilot' = [autopilot EXCEPT ![h] = TRUE]
            /\ autoPlay' = autoPlay \cup {h}
    /\ UNCHANGED <<settings, actor, beat, announced, connected, timeouts, drivers,
                   botJumpIn, botCatch, humanJumpIn, pending, holder>>

(* room:leave suspends the player; whether it was his turn is read before   *)
(* the awaits.                                                              *)
Leaves(h) ==
    /\ Live /\ Free /\ h \in Leaver /\ connected[h]
    /\ connected' = [connected EXCEPT ![h] = FALSE]
    /\ autopilot' = [autopilot EXCEPT ![h] = TRUE]
    /\ holder' = [Idle EXCEPT !.who = "leave", !.for = h, !.at = "projecting",
                              !.acts = IF actor = h THEN 1 ELSE 0]
    /\ UNCHANGED <<settings, actor, beat, announced, timeouts, drivers, botJumpIn,
                   extras, pending>>

(* ensureTurnDriver                                                         *)
ensureTurnDriver(auto) ==
    IF timer.is = "armed" \/ botTimer THEN UNCHANGED drivers ELSE startTurnTimer(actor, auto)

(* room:rejoin of a player; the first one after a restart restores the game *)
(* with every human disconnected.                                           *)
\* Faulty: the restored game waits for its first action.
FaultyRejoins(h) ==
    /\ Free /\ h \in Human /\ ~connected[h] /\ game # "gone"
    /\ game' = "live"
    /\ connected' = [connected EXCEPT ![h] = TRUE]
    /\ autopilot' = [autopilot EXCEPT ![h] = FALSE]
    /\ timeouts' = [timeouts EXCEPT ![h] = 0]
    /\ autoPlay' = autoPlay \ {h}
    /\ grace' = IF Live THEN grace \ {h} ELSE Human \ {h}
    /\ announced' = (announced \/ (~Live /\ actor = None))
    /\ UNCHANGED <<jumpIn, actor, beat, drivers, botJumpIn, botCatch, humanJumpIn, pending,
                   holder>>

Rejoins(h) ==
    /\ Free /\ h \in Human /\ ~connected[h] /\ game # "gone"
    /\ game' = "live"
    /\ connected' = [connected EXCEPT ![h] = TRUE]
    /\ autopilot' = [autopilot EXCEPT ![h] = FALSE]
    /\ timeouts' = [timeouts EXCEPT ![h] = 0]
    /\ autoPlay' = autoPlay \ {h}
    /\ grace' = IF Live THEN grace \ {h} ELSE {p \in Human : ~connected[p]} \ {h}
    /\ announced' = (announced \/ (~Live /\ actor = None))
    /\ ensureTurnDriver(autopilot')
    /\ UNCHANGED <<jumpIn, actor, beat, botJumpIn, botCatch, humanJumpIn, pending, holder>>

(* startNextRound                                                           *)
NextRound ==
    /\ Live /\ Free /\ announced
    /\ announced' = FALSE
    /\ \E a \in Player : Applied(a) /\ startTurnTimer(a, autopilot)
    /\ UNCHANGED <<settings, players, extras, pending, holder>>

(* Every timer and callback of the room is gone.                            *)
Cleared ==
    /\ timer' = Stopped /\ botTimer' = FALSE
    /\ botJumpIn' = FALSE /\ botCatch' = FALSE /\ humanJumpIn' = FALSE
    /\ autoPlay' = {} /\ grace' = {}
    /\ timeouts' = [p \in Player |-> 0]
    /\ announced' = FALSE
    /\ pending' = {} /\ holder' = Idle

(* The process ends and comes back; the snapshot keeps the autopilot flags. *)
Restarts ==
    /\ Live
    /\ game' = "stored"
    /\ connected' = [p \in Player |-> p \in Bot]
    /\ Cleared
    /\ UNCHANGED <<jumpIn, actor, beat, autopilot>>

(* The all-disconnect timer dissolves the room.                             *)
Dissolves ==
    /\ Live /\ Free /\ \A h \in Human : ~connected[h]
    /\ game' = "gone"
    /\ Cleared
    /\ UNCHANGED <<jumpIn, actor, beat, connected, autopilot>>

-----------------------------------------------------------------------------
Init ==
    /\ game = "live" /\ jumpIn \in JumpInRules
    /\ actor \in Player
    /\ beat = FALSE /\ announced = FALSE
    /\ connected = [p \in Player |-> TRUE]
    /\ autopilot = [p \in Player |-> FALSE]
    /\ timeouts = [p \in Player |-> 0]
    /\ botTimer = (actor \in Bot)
    /\ timer = IF actor \in Bot THEN Stopped
               ELSE [is |-> "armed", kind |-> "turn", onTime |-> TRUE]
    /\ botJumpIn = FALSE /\ botCatch = FALSE /\ humanJumpIn = FALSE
    /\ autoPlay = {} /\ grace = {} /\ pending = {}
    /\ holder = Idle

Callback ==
    \/ Fires \/ TurnCallback \/ BotCallback
    \/ JumpInCallback \/ HumanJumpInCallback \/ CatchCallback
    \/ \E h \in Human : AutoPlayCallback(h) \/ GraceEnds(h)

HolderGoesOn ==
    \/ BotDecides \/ Stops \/ AnnouncesEnd \/ CountsTimeout \/ Tells \/ HandsOn
    \/ BotHandsOn \/ JumpInHandsOn

Postcommit == \E p \in Human \cup {BotJumpIn} : Dispatches(p) \/ DispatchesEnd(p)

Users ==
    \E h \in Human :
        \/ \E a \in Player \cup {None} : Plays(h, a)
        \/ \E target \in Player : Catches(h, target)
        \/ \E a \in Player : Draws(h, a)
        \/ CallsUno(h) \/ AutopilotOnce(h)
        \/ Toggles(h) \/ Disconnects(h) \/ Leaves(h) \/ Rejoins(h)

Next ==
    \/ Callback \/ HolderGoesOn \/ Continues \/ Postcommit \/ Users
    \/ NextRound \/ Restarts \/ Dissolves

Spec == Init /\ [][Next]_vars

(* Timers fire and promises settle; the room lock is first come, first      *)
(* served, so that who waits for it gets it although others come and go.    *)
(* Users need not do anything.                                              *)
FairSpec ==
    /\ Spec
    /\ WF_vars(Fires) /\ WF_vars(HolderGoesOn)
    /\ SF_vars(TurnCallback) /\ SF_vars(BotCallback) /\ SF_vars(JumpInCallback)
    /\ \A h \in Human : SF_vars(AutoPlayCallback(h)) /\ SF_vars(GraceEnds(h))
    /\ \A p \in Human \cup {BotJumpIn} : WF_vars(Dispatches(p)) /\ SF_vars(DispatchesEnd(p))

-----------------------------------------------------------------------------
(* At most one driver waits to move the game on ("Every dispatch            *)
(* invalidates whatever bot thinking timer was armed", startTurnTimer).     *)
OneDriver == ~(timer.is # "stopped" /\ botTimer)

(* Once the end of a round is announced nothing is armed that would drive   *)
(* it, whoever still had an action to dispatch.                             *)
SettledRound == announced => timer = Stopped /\ ~botTimer /\ ~botJumpIn

(* A human who neither let his time run out nor enabled autopilot is never  *)
(* force-played, by the turn timer either.  The code does not keep this:    *)
(* README, "Exceptions built into the properties".                          *)
NeverForcedEarly ==
    [][holder'.who = "overdue" /\ Free /\ holder'.for \in Human
         /\ ~autopilot[holder'.for] => timer.onTime]_vars

(* A live round goes on even if no human ever acts again, once connections  *)
(* are stable: nobody waits for ever for a driver that nobody armed.        *)
Stable ==
    <>[][UNCHANGED <<connected, autopilot, game>> \/ Callback \/ HolderGoesOn]_vars
Over == game # "live" \/ actor = None
GoesOn ==
    Stable /\ ~jumpIn /\ <>[]TwoConnected(connected) => []<>Over \/ []<><<beat' # beat>>_vars

(* Every end of a round is announced: "the room soft-locks at a             *)
(* scoreboard-less round_end" otherwise (startTurnTimer).                   *)
EndIsAnnounced == []<>~(Live /\ actor = None /\ ~announced)
=============================================================================
