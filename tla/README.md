# UNO Online: a verification project

TLA+ models of `letsuno/uno-online`, the configurations that check them with TLC,
and theorems about them proved with TLAPS. Everything here is translated from the
TypeScript source; paths below are relative to `src/packages`.

The program has two halves. A pure rules engine (`shared/src/rules`) is a function from
a game state and an action of a player to the next state. A server (`server/src`)
keeps one live state per room, feeds it the actions that arrive over sockets, from
timers and from bots, writes it to a key-value store, and keeps rooms, owners and
spectators. The first half is modelled completely but for the bots' preferences; of
the second, every component that keeps state of its own over several events is.

## Inventory

| Component | State | Operations | Hard part | What makes it correct |
|---|---|---|---|---|
| Cards, deck, scoring (`rules/deck.ts`, `validation.ts`, `scoring.ts`) | attributes of cards; `chosenColor` of a wild | match, recycle discards, points | recycling when one side runs out in mid-penalty | no card lost or doubled |
| Turn order (`turn.ts`) | current seat, direction, eliminated seats | next, skip, rotate hands | two players left, gaps | the turn is always with a seat in the game |
| Game engine (`game-engine.ts`) | phase, hands, decks, discards, active penalty, penalty queue, UNO flags, scores | PLAY, DRAW, PASS, CHOOSE_COLOR, CHALLENGE, ACCEPT, CALL_UNO, CATCH_UNO | actions of several players interleave with a pending penalty or challenge | penalties are paid by whom they hit and cost the turn; challenges judge the right hand; an empty hand ends the round; the result is final |
| House rules (`house-rules-engine.ts`, `rules/rules/*`) | the same state, draw stack, revenge bonus | pre-check plugins replace an action, post-process plugins rewrite its result | 29 rules in any combination, plugin order is a contract | the engine's promises hold under every rule |
| Game session (`plugins/core/game/session.ts`, `setup.ts`) | one game state, history of rounds | create, apply action, next round, add/remove player, force end | what is carried from one round to the next | eliminated players stay out, team scores agree |
| Bots and autopilot (`autopilot-strategy.ts`, `rules/bot`) | a history of repeated states | choose a plan of actions | the choice must be one the house rules accept | whoever is played for has a move |
| Turn driver (`ws/game-events.ts`, `room-events.ts`, `turn-timer.ts`, `bot-uno-watcher.ts`) | timer generations, bot timers, autopilot flags, timeouts | start/stop timer, act for an idle player | a timer fires while the action it waited for is being committed | one driver, never none while a round is on |
| Round terminal (`ws/game-events.ts`, `plugins/core/game/lifecycle-state.ts`) | anchor of the round's end, votes, queue, who sits out, retries | announce, vote, kick, queue, deal, blitz end, back to the room | every step is several writes, and may be rolled back | votes are clicks, roster and session agree, the scoreboard is left |
| Persister (`plugins/core/game/state-store.ts`) | dirty map, debounce timers, write chain, tombstones | mark dirty, flush, delete, revive | a retry against a newer write, a crash, dissolved rooms | the store never goes back, a deleted room stays deleted |
| Locks (`room-lifecycle-lock.ts`, `user-membership-lock.ts`, `shutdown.ts`) | promise tails | run a task exclusively, drain | nested user then room, timers that fire while the server drains | first come first served, no deadlock, nothing runs at the last flush |
| Rooms and membership (`room-events.ts`, `seat-events.ts`, `owner-transfer.ts`, `room-departure.ts`, `room-lifecycle.ts`, `room-roster-reconcile.ts`) | roster, seats, owner, departures, presence | join, leave, kick, transfer, seats, dissolve, rejoin | timers against reconnects, crashes between writes | one room a user, an owner who is there, a deserted room ends |
| MCP adapter (`mcp/src/socket-client.ts`, `server.ts`) | membership as the client believes it, epoch, pending question | create, join, rejoin, leave, dissolve, discover, reconcile, restore after a reconnect | lost and late answers, lost connections, events that race answers | it is in the room it believes to be in, and learns the truth after a lost answer |
| Settings validation, HTTP, authentication, database, administration | rows of a database | requests and responses | - | not modelled: no protocol state |
| Other clients, songs, voice | - | send actions | - | not modelled: the models take every action in any order |

The components interact by calls. A socket handler, timer or bot calls
`GameSession.applyAction`, which is synchronous; everything after it (persist,
announce, timers) is asynchronous and takes the room's lock, but the socket event that
caused it does not wait for that. Hence a *game* interleaves whole actions, which is
what `UnoGame` has, while the *server* interleaves the pieces between two awaits
(`TurnDriver`, `GameStatePersister`, `LifecycleLocks`) or, where a handler holds the
room lock from start to end, handlers with a possible crash between their writes
(`RoundTerminal`, `RoomMembership`).

## Modules

| Module | Models | Correspondence |
|---|---|---|
| `Cards` | `types/card.ts`, `validation.ts`, `scoring.ts` | `Deck` and the attributes of its cards are constants; one operator per function |
| `Turn` | `turn.ts` | a player is his seat; `getNextAliveIndex` is the alive seat the fewest steps away, which is where the loop stops |
| `GameEngine` | `game-engine.ts` | the game state is a record with the fields of `GameState`; each handler is a guard (`XAllowed`, the early returns) and the state it returns (`handleX`) |
| `HouseRules` | `house-rules-engine.ts`, `house-rule-helpers.ts`, all plugins of `rules/rules` | each pre-check plugin is `XClaims` (it returns `handled: true`), its guard and its effect; post-process plugins are functions of the state before and after |
| `UnoGame` | `session.ts`, `setup.ts`, `applyActionWithHouseRules` | the variable `state`, one action per way in which an input is accepted; `Init` and `StartNextRound` |
| `UnoProperties` | - | the properties of a game |
| `AutomatedPlay` | `autopilot-strategy.ts`, `rules/bot/bot-strategy.ts`, `legal-action-plans.ts` | the set of actions a chooser's plan may begin with, and whether the engine would accept them |
| `MCUno` | - | decks, deals and rule sets for TLC |
| `SavedGame` | - | what a persister promises about one room, in four variables |
| `GameStatePersister` | `state-store.ts`, the operations that flush, start, tear down, restore, and `shutdown.ts` | maps keyed by the room become one variable each; a snapshot is the number of the state it captures |
| `TicketLock` | - | what a FIFO lock promises |
| `LifecycleLocks` | `room-lifecycle-lock.ts`, `user-membership-lock.ts` | a promise tail is the name of the operation whose gate it is |
| `Shutdown`, `MCShutdown` | `shutdown.ts`, the drain of `ws/socket-handler.ts`, `app.ts` | the straight-line code between two awaits is one instruction of `Program` |
| `TurnDriver`, `MCTurnDriver` | the timers, bots and autopilot of `ws/` | of the game only who is to act; of a generation number or a timer handle, whether it is still the current one |
| `RoomMembership`, `MCMembership` | `room-events.ts`, `seat-events.ts`, `owner-transfer.ts`, `room-*.ts`, `disconnect` | `room` is what the store holds, `memory` what the process does, `at` where each socket is |
| `RoundTerminal` | the scoreboard's part of `game-events.ts`, `socket-handler.ts`, `lifecycle-state.ts`, blitz | `memory` and `store` again; a handler is its success, its rollback, its failed rollback, or a crash between its writes |
| `RoomClient` | `mcp/src/socket-client.ts`, `getClient` of `mcp/src/server.ts` | `client` has the fields of `UnoSocketClient` and its calls; `server` is what the server knows of this one user, `upstream` and `inbox` the connection |
| `RoomClientGuess` | - | `RoomClient` with a history variable: whether the membership is a guess that no answer settled |
| `UnoGameProofs`, `ResultProofs`, `PersisterProofs`, `LockProofs`, `TurnDriverProofs`, `MembershipProofs`, `TerminalProofs`, `RoomClientProofs` | - | the proofs |

How they compose. `UnoGame` is the game; `AutomatedPlay` asks of each of its states what
the server would play. `TurnDriver` shows that the server does ask, and together they
justify the fairness `UnoGame` assumes. `Shutdown` runs the operations of
`LifecycleLocks`; the `lastFlush` it waits for is the one of `GameStatePersister`.
`RoundTerminal` and `RoomMembership` look at the same scoreboard from two sides: the
first has votes, queue, rollback and the exact snapshot, the second has who belongs
to the room at all, also outside a game. `RoomClient` has the server's side of one member in a
few lines, whose detail is in `RoomMembership`, and a connection that loses what is on its way.

What the models of the game abstract:

* An input the code refuses returns the same state object and is no step of the model.
  An input the code throws on (a challenge that finds no previous discard) leaves the
  state unchanged as well; that such states are unreachable is `EngineNeverThrows`.
* A face-down side deck is a set and a draw takes any of its cards: the order is
  the outcome of a shuffle nobody knows. The discard pile keeps its order.
* A card is an element of `Deck`. `chosenColor`, the only mutable attribute, is a
  function of the state; a refill clears it as `clearWildColor` does.
* The hand of a player is a set. The order of a hand matters in one place:
  `forcedPlayAfterDraw` plays the last card of the array. After a draw that is the
  card drawn; when a refused draw left the hand as it was, the model takes any card.
* `lastAction` keeps the type and the player; the details for the clients' animations
  are left out. A CATCH_UNO does not record the catcher.
* Points of a hand are a cardinality (pairs of a card and a point) instead of a
  recursive sum, so that the module can be proved about.
* The deal is a parameter: `Deals` is the set of outcomes of shuffling considered, and
  `LegalDeal` is what dealing guarantees about sizes and the first discard. Rules
  that change only time or display (fast mode, no hints) and presets are not in the
  model; the blitz limit is in `RoundTerminal`.
* `AutomatedPlay` has no evaluator scores: every candidate may win. It leaves out jump-ins,
  bots' own UNO calls and catches, the history of the cycle guard (which only replaces
  a plan by a legal one), and the inference of learned models, which choose among the
  legal plans.

What the models of the server abstract:

* `GameStatePersister`: retry delays and the lifetime of keys in the store are left
  out, the tombstone's 60 seconds end by an action. A write whose answer is lost may or
  may not have happened; a lost answer of the write of the room's *status* is left out.
* `LifecycleLocks` has the room and user locks; the locks of seats and of owner changes
  (one map each, never nested) are left out. In `Shutdown` each operation runs once: a
  chain of timers that arm each other without end would keep the last drain waiting. Also left out
  are the second time a bot's jump-in that ends a round asks for the room lock, right after it
  gave it back, and the retry timer of the startup, which is not cleared but returns at once when the server closes.
* `TurnDriver`: delays are left out, several bots in one turn are one, and the blitz
  timer and votes are in `RoundTerminal`. `UnoGame`'s actions are "somebody is to act next".
* `RoomMembership`: failing writes, bots, seat swaps and settings are left out; room codes
  are not drawn twice. A write that fails while a disconnect is handled, after which
  no timer is armed, is among the failures left out.
* `RoundTerminal`: one room, one socket a user, spectators allowed. The presence flags
  of the roster and what the last member's leave does are in `RoomMembership`. A
  failing snapshot in `room:leave` or `game:spectator_join` and a failing read
  in `disconnect` are left out (the latter would leave an absent owner
  unreplaced), so is the 30-second timer that only repeats a vote already cast.
* `RoomClient`: the epoch of a call is whether it is still the current one; a call of an older
  epoch is forgotten unless it still does something (a question under way, a join that waits for the
  connection). The game view and the events that carry it are left out, and so are a login elsewhere
  (`auth:kicked`) and a protocol mismatch, which end the client. A connection is in order; when it
  is lost the server has received any prefix of what was sent, and its answers are lost.

`\* Faulty` definitions, each next to the definition it would replace, are plausible
bugs: with the faulty definition in its place, the property named in `PROJECT.json`
is violated, so the property does say something about that code.

## Properties

Of the game (`UnoProperties`, `TypeOK` in `UnoGame`, `AutomationActs` in `AutomatedPlay`):

* `CardConservation`: every card is in exactly one place.
* `EngineNeverThrows`: the states in which the handlers throw are not reached.
* `EmptyHandEndsRound`: while a round goes on everybody in the game holds a card.
* `ResultIsFinal`: late actions (UNO calls, catches, penalties) do not change a decided round.
* `ChallengeJudgesHandAtPlay`: between a Wild Draw Four and its answer neither the
  player nor his hand changes.
* `CallOutlivesNoDraw`: an UNO call is void once the player holds more cards than it may be made with.
* `DebtIsPaidCardByCard`, `PenaltyIsExclusive`, `VictimIsSkipped`: penalties are paid
  one card at a time, nobody plays or passes them on meanwhile, and the victim of a +2 or +4 loses the turn.
* `DebtIsForgivenOnlyWhenExhausted`: the stronger form of the first, which a comment
  promises and the code does not keep (no run checks it).
* `DebtIsEventuallyPaid`: every debt is paid or the round ends (liveness).
* `AutomationActs`: whatever the autopilot or a rule bot chooses for the player the game
  waits for is accepted by the rules and changes the state. This implies that nobody is
  left without a move.
* `EliminatedStayOut`, `WinnerScoreIsDoubled`: what the rules about results promise, over two rounds.
  The second compares the winner's points with all the cards the players hold after the action, so it
  also says that what runs after the round is decided (a rotation, the partner's share, an elimination) does not falsify them.

Of the persister: `AckedIsStored` (what a flush acknowledged is in the store, or something
newer is), `DeletedStaysDeleted`, `ExitSavesAll` (an orderly end saves the newest state),
`EventuallySaved` (liveness), and `SavesTheGame`, the refinement of `SavedGame`.

Of the locks and the shutdown: `InTurn` (one holder, the one that asked first),
`QuietAtLastFlush` (no operation runs or can start when the last flush begins), `ShutdownEnds`
(liveness: every operation and the shutdown come to an end) and `IsTicketLock`, the refinement of
`TicketLock` by each of the locks.

Of the turn driver: `OneDriver` (the turn timer and a bot's timer are never both armed),
`SettledRound` (nothing is armed after the announcement of a round's end), and, as liveness,
`GoesOn` and `EndIsAnnounced`.

Of membership: `OneRoom`, `PlayersBelong`, `ConnectedIsTracked`, and, as liveness, `OwnerPresent`
and `DesertedRoomEnds`.

Of the round terminal: `SeatsMatchGame` (roster, socket marks and session agree),
`VotesAreEarned` (a present player's vote is a click of his since he is there, an absent one's
is cast for him), `DealKeepsPromises` (the next round is dealt to those who played on and
those in the queue, and to nobody who was told to sit out) and `NextRoundComes`
(liveness).

Of the adapter's client: `ActiveIsPresent` (when everything is answered, a client that believes to be
active in a room is in it), `LeaveSticks` (a player who left his game is brought back by the agent, not by a
reconnect) and `TruthComesOut` (liveness: a membership that is a guess after a lost answer is found out).
The last is about `guess`, a history variable of `RoomClientGuess`: that no question is pending does not mean
that one was answered.

## Runs

| Run | Instance | States | Checks |
|---|---|---|---|
| `classic` | 3 players, 6 cards, no house rules | 976k | type, conservation, no throw, challenges, result, calls |
| `stacking` | 3 players, 6 cards: stack, cross-stack, reverse deflection / revenge, skip deflection | 507k | penalties, end of a round |
| `limits` | 2 players, 5 cards: hand limit, forced play, draw until playable, finish restrictions, misplay, no challenge, stacking, bigger UNO penalty | 45k | automation acts; debts are paid under `FairSpec` |
| `party` | 3 players, 6 cards: seven swap + jump-in / zero rotation + seven swap / multi-play + bomb | 239k | automation acts |
| `rounds` | 4 players, 6 cards, two rounds: elimination, double score, teams, shuffled seats | 365k | results over rounds |
| `persister` | one room, 4 states of its games, 2 ends of the process | 35k | persister, refinement |
| `shutdown` | one user, two rooms, two socket events and three timers | 164k | locks, drain, refinement |
| `turn_driver` | one human, one bot, with and without `jumpIn`, 2 automatic actions in a row, autopilot after 1 timeout | 196k | turn driver |
| `membership` | two users, one crash, no gap (see below) | 471k | membership |
| `terminal` | two humans, two bots, 3 seats (two or all of them taken at the start), blitz, 2 rounds, one failing call, 2 lost sockets, one crash | 1077k | round terminal |
| `room_client` | one user, two rooms, 2 calls of the agent, 2 troubles, no gap (see below) | 992k | adapter's client |
| `blitz` | as `terminal`, with one bot | violation | `GameOverIsAnnounced` |

Why these bounds. A game needs a hand of one card for an UNO call, two for a turn, a
side deck that runs out and a discard pile to recycle; five or six cards give all of these
within a few moves, and every deck contains the cards its rules are about. With one
card dealt to each player the interesting moments (UNO, last card, empty decks) are
near the start, and draws make the longer hands. `ShortQueue` (in `classic`) bounds
the penalties that wait behind the active one, which repeated catches would otherwise
make unbounded; one waiting penalty is enough for every branch that reads the queue.
`NoUnoCalls` (in `rounds`) leaves out UNO calls, which affect no result there. After
the first round the first or the last seat is the one without cards; the permutation
of seats makes the eliminated player take either. `MaxRounds` bounds the rounds.
Four players in `rounds` are the fewest that form two teams; the last elimination,
which ends the game with one player left, would need three rounds.

Four states are a game's deal, a step, the deal of the next game and a step of it: a write
of the first game may be late in the second. Two ends of the process are an orderly one
after a crash. `shutdown` has the kinds of path there are (an event with a user and a room lock,
one with a room lock, a timer that is tracked and takes both locks in another room, and two timers
that are not tracked), so one timer may arm another while the drain waits. In `membership` two users suffice for an owner and a successor; the
invariants alone were also explored for three users over 12.5 million states. `terminal` has
a spectator at the start or not, an owner who plays or watches, a free seat for him or a full table, and the one failure may be any
call that can fail (`Tables` are the rosters of the first round; others differ from them by the names of the users); two lost sockets are a player and the owner, or one who comes back and goes again.
In `room_client` a trouble is a lost connection, a late answer, a refusal for a failure or
something others do; any two of them may meet two calls, which are an old call and a newer one. Two rooms are
the one left and the one entered. A call under way whose answer is lost costs nothing.
The type invariants of `RoomClient`, `TurnDriver`, `RoundTerminal` and `RoomMembership` hold in their runs
too; the runs list what is not only about types.

Deadlock is not checked: a decided game stops, a process that ended for the last
time within the bounds stops, and the server may wait for users. What must not wait is
stated by the liveness properties, which are stronger.

### Fairness

* `UnoGame`: weak fairness of `TurnAction(p)`, what the player the game waits for may do.
  The server starts a timer for every turn and plays for a player who lets it run out;
  `TurnDriver!GoesOn` is that it does, `AutomationActs` that what it plays is accepted. Side
  actions (UNO calls, catches, jump-ins, misplays) are not fair.
* `GameStatePersister`: timers fire, a started write is answered, the holder of the room lock
  goes on. `SF(WriteSucceeds)` says that a store tried for ever answers well in the end.
* `Shutdown`: an operation that is inside ends (handlers have timeouts), promises settle.
* `TurnDriver`: timers fire and promises settle; those that wait for the room lock get it
  although others come and go (strong fairness), because the lock is first come first
  served, which `LockProofs` proves. Users need not do anything.
* `RoomMembership`: the same, and the two-hour sweep of idle rooms is not waited for.
* `RoundTerminal`: announcement, cooldown, timers, retries and disconnect handlers run. In
  addition *users who are present click*: whoever is waited for votes, the owner starts, an owner
  who watches asks for a seat. That is an assumption about people; it is needed since nothing in the
  code starts the next round for an owner who is present and does not.
* `RoomClient`: Socket.IO reconnects, the server handles requests, answers arrive, and timers of calls
  fire. *The agent goes on using tools* (`Retry`): every tool asks again first, and a question that
  timed out over a working connection is asked again by nobody else.

### Exceptions built into the properties

Some promises fail in situations the code does not handle. They are named, so that the rest
can be checked; each is reproduced by the change given.

* `GoesOn` assumes a game without `jumpIn`: after an automatic action the next driver is left to
  the jump-in timer, and an UNO call, draw or catch in the meantime makes that
  timer void. It also assumes two connected players: a disconnect with fewer stops
  the turn timer. (Drop the conjuncts.) It does not assume that who hands the turn on arms the next driver:
  `game:draw_card` dispatches only when it pays off the last penalty, so a draw followed by a forced play, or one that
  starts another player's queued penalty, leaves whatever timer the drawer had. The game goes on because that timer
  reads the player to act when it fires.
* `NeverForcedEarly`: a turn timer that fires between a human's action and the dispatch that
  follows its projections reads the player to act afresh and may play one whose time has not begun; after a
  draw that hands the turn on no dispatch follows at all, and the next player has what is left of the drawer's time.
  (Check it with `Spec`, `Human <- MCPair`, `Bot = {}`, `JumpInRules = {FALSE}`, `MaxActs = 1`.)
* `OwnerPresent`: with `Gap = {"newcomer"}`, a member who enters after the transfer timer
  found nobody does not arm it again.
* `ConnectedIsTracked`: with `Gap = {"drop"}`, a socket closes while its join is under way,
  and the disconnect handler finds no room yet.
* `DesertedRoomEnds`: with `Gap = {"watcher"}` (`Deserted.cfg`), the last one who is present leaves a
  running game as a spectator; only the players' path arms the dissolution, so the room
  lives until the idle sweep.
* `NextRoundComes`: a session restored by a rollback is another object, so the retries an
  announcement left are no longer taken for its own. With two failures (a retry pending, then
  a rollback: `MaxFails = 2`, `MaxCrashes = 0`) an absent owner is never replaced; with a
  failing rollback (`"rollback"` in `Faults`) a queued spectator keeps a seat in the roster
  and every later start throws. `OwnerShutOut`: the owner watches and the players and the queue fill the table.
  `game:spectator_join` refuses him, so does the automatic queueing, and `game:next_round` is refused to an owner who neither plays nor
  is in the queue. Nobody else can start, so the scoreboard stays until a player is kicked, leaves to the spectators or is made
  the owner, which nothing guarantees. (Drop the disjunct.)
* `LeaveSticks`: with `Gap = {"leave"}` the connection is lost while a leave is under way; see "Returned" below.
* `TruthComesOut` excepts two ways in which the question is dropped and nothing is learned; without the conjunct that
  names it in `Remembers` each is a counterexample, after which nobody asks again. `NewerCallFails`: a call made while the
  question is pending drops it (`beginMembershipOperation`), then is refused or finds no server. The membership stays as it was guessed: `unknown`
  after a create, `suspended` in a room after a join, although the user may be in another one.
  `OldWordTaken`: the end of an earlier membership (`room:membership_ended`) arrives after the guess was made; the client takes it for
  the end of this one and forgets the question, although the create or join that gave up was granted.
* `ActiveIsPresent`: with `Gap = {"overtake"}`, a call made while the restore after a reconnect is under way
  makes its answer void; if both are refused, the client stays active in a room it is not in.

### Disagreements

One run expects a violation; it shows a real behaviour of the code that a comment of the
repository contradicts. Others were met on the way and can be reproduced; no run keeps them.

* `blitz` (the run): the owner starts the next round after the blitz deadline; the phase becomes
  `game_over`, but the announcement returns at once because the anchor of the round's end is still set.
  Nobody is told, and the room's status stays `playing`.
* Returned: a player leaves a game and the connection is lost before the answer arrives. The client still
  believes to be active when it reconnects and rejoins, which ends the suspension that the server had
  committed, against "A transport reconnect must not silently disable their server-side autopilot"
  (`mcp/src/socket-client.ts:669`). (`RoomClient.cfg` with `Gap = {"leave"}`, `LeaveSticks`.)
* Stuck: facing a stack of draws, autopilot and rule bot answer with a +2 also when it is the last
  card and `noFunctionCardFinish` refuses it. The refused plan is not recorded by the cycle guard,
  so it is chosen again at every timeout, although a bounded guard is to prevent endless repetition under
  combined house rules (`CHANGELOG.md:97`). (`Stuck.cfg`; `StuckForcedRules` gives variants with forced play.)
  The proof of `AutomationKeepsActing` showed two more cases, which `AutomationActs` in `Stuck.cfg` confirms with other `RuleSets`. With
  `misplayPenalty` and `reverseDeflectDrawTwo` an off-colour Reverse that would deflect the stack is
  punished as a misplay, since that plugin claims the card first. With `stackDrawTwo` alone, three players: somebody is caught
  while a stack waits, his penalty takes the last card, and whoever faces the stack without an answer sends PASS, because no
  card is left, which the stacking rule refuses; a draw, though of nothing, would be accepted.
* Catch and skip: a player pays a +2; another is caught without an UNO call. The queued
  UNO penalty takes the payer as the next player (`game-engine.ts:699`), so the payer
  gets the turn he was to lose. (`VictimIsSkipped` in `Stacking.cfg` with `RuleSets <- ClassicRules`;
  the rules of `stacking` have no catches.)
* Evaded: with `misplayPenalty` and `multiplePlaySameNumber`, a player who misplays after another's number
  card sends PASS. `multiPlayPass` (`rules/multi-play.ts:16`) looks at the last action and the top card, not
  at the penalty: the turn goes on and the next player pays, against "does not allow playing or passing
  until all pending penalty cards are drawn" (`shared/tests/penalty-draw-flow.test.ts:47`). For the same
  reason the next player may pass without a draw after any number card. (`Evaded.cfg`, `PenaltyIsExclusive`.)
* Forgiven: a penalty draw from the side deck that is empty and cannot be refilled
  counts as a card paid although the other side has cards (`game-engine.ts:268`;
  `DebtIsForgivenOnlyWhenExhausted`).
* Recycled: with `noFunctionCardFinish`, the player of a Wild Draw Four may, while
  the challenge is open, send his restricted last card and draw for it. With empty
  sides this recycles the discard under the Wild Draw Four; CHALLENGE then throws
  (`EngineNeverThrows` with `RestrictedRules`). The same makes a bot's CHALLENGE fail, which is
  why `limits` does not combine `noFunctionCardFinish`, misplay and forced play.
* Jump-in with 0: a jump-in with a last 0 under `zeroRotateHands` rotates the empty hand
  away before the round-end check; the round goes on (`JumpZero.cfg`, `EmptyHandEndsRound`).
* Undoubled: `doubleScore` looks at the phase before the action; a round won by
  stacking the last card in answer to a Wild Draw Four is not doubled (`WinnerScoreIsDoubled` with
  `UndoubledRules`).
* An eliminated player who leaves to the spectators and queues again is in the next round, no
  longer eliminated (seen in `RoundTerminal`: `removePlayer` takes him from `out`).

## Proofs

**The game.** `UnoGameProofs` proves, operator by operator, that the handlers
and plugins preserve `Sound`: the type of the state, together with three facts the
handlers rely on and that the type alone does not give:

* somebody is still in the game (else `getNextAliveIndex` chooses from nothing),
* the discard pile is not empty (else there is no top card to match),
* an active penalty has a next player (else finishing it hands the turn to nobody).

One lemma per group of actions leads to the theorems `AlwaysSound`
(`Spec => []Sound`) and `TypeCorrect` (`Spec => []TypeOK`), for every deck, number of
players, deal, settings and choice of rules that satisfies the assumptions
`DeckAssumption`, `NAssumption`, `SettingsAssumption`, `UnoGameAssumption`. These say
that attributes have their types, exactly the wild cards are colourless, there is a
player, and deals are partitions of the deck; TLC evaluates them in every run. The lemma `NextIsAlive`
(the next player is always a player still in the game) rests on the well-foundedness of
the natural numbers, and `EliminationSound` on the cardinality of the remaining players.

It then proves `CardsAreConserved` (`Spec => []CardConservation`). The invariant
`SharedOut` is about the hands, the decks and the pile alone; four lemmas show that the
four ways in which cards move keep it (`PlayMovesCard`, `DrawMovesCard`,
`RefillMovesCards`, `ExchangeMovesHands`), and every operator of the engine and the
house rules either moves cards in one of these ways or leaves the three fields alone.
The rotation of hands is the interesting case: it loses no hand only because it is a
permutation of the players in the game, which `NextIsReversible` proves (the nearest
player one way and the nearest player the other way undo each other).

Its last part is about who holds cards. One invariant, `FitState`, gives three of the properties the runs
check, for every number of players and rounds:

* `EliminatedAreOut` (`Spec => []EliminatedStayOut`). It is not enough that the turn skips who is out: a
  penalty, active or queued, hands the turn to the `nextPlayerIndex` fixed when it began. So the
  invariant (`Waits`) is about the next players in the queue as well as about the payers. It is inductive because
  eliminations happen only when a round ends, and a finished round owes nothing.
* `EmptyHandsEndRounds`: while a round goes on nobody in the game has an empty hand. Between a card's leaving the hand and
  `checkRoundEnd` one player's hand may be empty: `Fits` has a parameter for him, and the proof shows
  that every operator in between leaves him alone until he is judged.
* `CallsAreVoided` (`CallOutlivesNoDraw`): a call is for at most two cards.

The last two hold but for a rule the code does not get right, so their statements name it: with
`jumpIn` and `zeroRotateHands` together a jump-in with a last 0 rotates the empty hand away before it is judged ("Jump-in with 0" above);
with `zeroRotateHands` calls stay with the players while the hands move, so a call may meet a larger hand.

`ResultProofs` proves `ResultNeverChanges` (`Spec => ResultIsFinal`). Type correctness
is not enough for it: a card that answers a stack of draws is judged by `drawStack`
alone, so a stack left on a finished round would let a late Draw Two change hands and
result. The strengthening `Settled` says that no stack is left once the phase is
terminal; it is inductive because the two operators that end a round
(`checkRoundEnd`, `handlePass`) reset the stack and a card goes on a stack only while
the round is on (`AlwaysSettled`). Given it, the only actions a finished round admits
are the penalty of the finish restriction, an UNO call and a catch, and none of them
touches the result.

`ResultProofs` then proves that the engine does not throw (`EngineThrowsNothing`) and that a challenge
judges the hand the Wild Draw Four was played from (`ChallengeJudgesThatHand`). Both rest on `Clear`, which says
phase by phase what the discard pile tells: every wild card in it shows the colour chosen for it, but
for the top card while that is being asked for; a Wild Draw Four is on top, with a card under it, while
somebody is challenged; a stack of draws exists only in the playing phase, and only with a rule
that stacks. A refill is what could break it, since it takes discards away and clears colours. It is harmless
because players draw in the playing phase only, and because the discards are distinct
(`AlwaysInPlace`), so no card that was taken is still in the pile. The rules that forbid a last card (`noFunctionCardFinish`,
`noWildFinish`) make a player draw in any phase, and the claim is then false ("Recycled" above): the
theorems are about games without them.

Its last part is about debts: `DebtsArePaid` (`Spec => DebtIsPaidCardByCard`, for every choice of rules) and
`PayingIsExclusive` (`PenaltyIsExclusive`, for games without the rules whose PASS evades a penalty, "Evaded" above).
`Owes(s, k)` says that the penalties of `s` are in order and that at least `k` cards of them are
unpaid unless the round is over. Each operator of the engine keeps it for every `k`, so an action that
draws no card for a debt cannot shrink it; payment is the one operator that does, and its lemma says
by how much. Three facts make this true. An active penalty or a stack exists in the playing
phase only, a stack only under the stacking rules (`Due`); so a card that answers a stack adds to it and a card that
starts a penalty finds none to overwrite. A penalty started while another is paid goes to the
queue. And the queue, when one is paid, gives up its head in the same step as that becomes the active penalty.
The cards of the queue are counted as the set of pairs `queuedCards` (a penalty, a card of it), since a
fold over a sequence cannot be reasoned about here; the lemmas `QueuedAfterAppend`, `QueuedAfterTail` and `QueuedAfterConcat` say what
that set does when the queue grows and shrinks.

The section on automatic play proves `AutomationKeepsActing` (`Spec => []AutomationActs`, with the hypotheses below). A plan that the
rules refuse changes nothing, so the same plan is chosen again: the claim is that the choosers and the plugins agree. They look at
different things. `choosePlay` and the candidates of a rule bot look at the hand, the pile and the stack; the
plugins ask in a fixed order, and each may claim or refuse a card for a reason of its own. There is one lemma for each kind of
move: the answer to a Wild Draw Four (`ChallengeAnswerAccepted`) or a stack
(`StackAnswerAccepted`), a playable card (`PlayableAccepted`), a draw or a pass (`ChoosePlayLegal`). They use what was proved
before: who is awaited has a hand and owes what the fields say (`Sound`, `Owes`), a colour is on the pile and a stack
has a rule (`Clear`), a swap is asked for only under `sevenSwapHands`, and there is somebody to swap with
(`AlwaysPaired`). `Spec` covers every interleaving of human and automatic actions, so automation may take over in any state.
The hypotheses are two players or more, a colour, no finish restriction ("Stuck" above) and `Answerable`: while a stack waits there is a card to draw
and misplays are not punished. TLC finds the claim false without each of the last two.

The last two sections are about points and turns. `WinnersAreDoubled` proves `WinnerScoreIsDoubled` for games without the five rules
under which a card answers a Wild Draw Four ("Undoubled" above is why). A round is decided deep in an action, before the plugins that
rotate hands, share points and double; `Counted` says of each intermediate state that nobody has won, or
one player has and got what all others hold. The winner's own hand is empty then, so this is what all hands hold
together, and a rotation does not change it. `VictimsAreSkipped` proves `VictimIsSkipped` for two players or more. Its invariant
`Skips` says that a penalty waits only behind one that is paid, that no card was played for it, and that while somebody pays for another's
card neither his penalty nor one behind it gives him the turn. A penalty gets behind another in one way only (`revengeMode`, which
makes the same player pay the same way), since the theorem assumes `silentUno` and no multi-play:
a catch queues a penalty that takes the payer as the next player ("Catch and skip"), and
a PASS that ends a series of plays abandons a penalty ("Evaded").

**The persister.** `PersisterProofs` proves all four safety properties, for every number of states and of
ends of the process, from one inductive invariant. Its heart is `NewestOnItsWay`: the
live state is dirty, or the last write of the chain carries it, or the store has it. It
needs that the chain is ordered (`InOrder`), that a waiting operation waits for a write of
its state (`WaitsForItsState`), that the holder of the room lock knows what the store and
the status may be (`LockHolderKnows`), that nothing is under way before a game is restored
(`NothingBeforeRestore`), that a deleted game's writes are over (`DeletedIsOver`), and the
claim itself (`AckedIsStored`). `SavesGames` then maps every step to a step of `SavedGame`
or a stutter; the case that needs the invariant is a write that reaches the store late.

**The locks.** `LockProofs` proves `AlwaysInTurn` and that each lock implements `TicketLock`
(`LocksAreTicketLocks`), for every set of operations, users and rooms and also
while the server shuts down. The invariant says how tails, gates and tickets go together:
tickets are the numbers below `drawn`, each given once (`Numbered`), those below `served` are
of operations that left and the others of operations that wait or hold in order (`InOrder`), and whoever
waits, waits for the one just before (`OneBefore`). `RunsAreLockSteps` shows that a step of the shutdown
is a step of the locks or leaves them alone.

`AlwaysQuiet` (`QuietAtLastFlush`) says that no operation runs or may start when the last flush begins. The
shutdown waits for the operations it tracks, then for the tails of both lock maps, and stops every timer once more. Each wait
alone is too weak: a timer may fire between the waits and arm another. The invariant (`Draining`) therefore says
instruction by instruction what is over for good. It uses two facts of the code. First, whoever takes
a user's lock is tracked (`UntrackedAssumption`; `Tracked` are the operations in
`activeOperations`: the socket events, and the one kind of timer that takes a user's lock, the
eviction of a member who waits, while the timers of turns, bots, jump-ins, owners,
blitz and retries take the room's lock only). Second, a timer that is tracked is armed only while
the server does not close (`MayArm`). Without either, the drain of the user locks could be over before the last user lock is taken.

**The turn driver.** `TurnDriverProofs` proves `AlwaysOneDriver` and `AlwaysSettledRound` for any humans and bots.
The properties are not inductive by themselves: a callback that holds the room's lock arms a timer
for the player it remembers, not for the one it reads. `Remembered` says what it may rely on: a bot
that thinks is still the one to act, unless an event marked the holder as overtaken. `Resting` says that a game in the store or
gone has no timer and no callback left, so that restoring it starts from nothing.

**Membership.** `MembershipProofs` proves `AlwaysOneRoom`, `PlayersStayMembers` and `AlwaysTracked`, for any number of users and
crashes. The invariant `Fit` has a part for the room (`RoomInShape`), for the session against the room's snapshot (`SessionFits`),
for the map of users (`MembersMapped`) and for presence (`PresenceFits`). What it must allow for
is a crash in `room:create` between the roster's write and the user's: the member then has a seat in a room he is not mapped to, and
the invariant says that the startup or his eviction still finds him. `AlwaysOneRoom` and `PlayersStayMembers` hold with every gap;
`AlwaysTracked` assumes `"drop" \notin Gap`, which is the exception of `ConnectedIsTracked` above.

**The end of a round.** `TerminalProofs` proves the three safety properties of `RoundTerminal` for every
set of members, number of seats, of rounds and of failures. The invariant `IInv` has two parts. `VotesFair`
adds to `VotesAreEarned` that no votes are held against a round before it is announced, since a
round may start and end while nobody looks at the votes; it holds whatever fails. `Agreed` says that roster,
socket marks and session are about the same people (`Seated`), that a room that is not waiting has a
snapshot to restore and nobody in it before that (`InStore`), and that session, stored
snapshot and the snapshot still to be written know who sits out and have a seat for everybody in the
queue (`Promised`). The last part is what makes the deal right: `processPendingSpectatorJoins` silently
leaves out whoever finds no seat, and `Promised` shows that there is nobody (`Joining` is all of
`Newcomers`). That all three copies must keep it comes from crashes: any of them may be
the next session. `Agreed` needs that a rollback's own writes succeed, so `SeatsAlwaysMatch` and
`DealsArePromised` assume `"rollback" \notin Faults` (what happens otherwise is the exception of
`NextRoundComes` above); `TypeCorrect` and `VotesAreClicks` assume nothing.

**The adapter's client.** `RoomClientProofs` proves `PresenceIsTrue` (`Spec => []ActiveIsPresent`) and `LeavesLast`
(`Spec => LeaveSticks`) for every number of rooms, slots, calls and troubles. `ActiveIsPresent` speaks of quiet moments
only; what holds in between is the invariant `Steady`. Its part `Backed` says what makes up for an active client that is
not present: it has asked to be let in again, the room's end is on its way, or the answer to its leave is. For the answers that make a client active
`Sound` says that they tell the truth or the room's end follows them (`AnswersTrue`). That they stay true depends on the
order of messages: a request of a lost connection is handled before a socket of the new one is in a
room (`InOrder`), no leave is handled after a call that activates a room (`LeavesFirst`), and one such call at most is about, during
which nothing is guessed (`OneAtATime`). One lemma says what a client may forget at any time (`ForgettingIsSound`:
a later epoch, a timeout, a message that is read), one what a request it sends needs (`CallingIsSound`), and one what the server may tell
(`HandledIsSound`); every action is one of the three. `Lasting`, for `LeaveSticks`, adds that nobody asks to be let in
again who has departed or whose leave is still to be handled. The theorems assume `"overtake" \notin Gap`, the
exception of `ActiveIsPresent` above, and `LeavesLast` also `"leave" \notin Gap`, the exception of `LeaveSticks`;
`PresenceIsTrue` holds with that gap.

**Only model-checked.** All liveness (`TruthComesOut` of the client among it): it is out of the prover's reach, as is anything about ENABLED.
Where a theorem has hypotheses on the rules, the other choices of rules are checked by the runs only.

## Not modelled

* Settings validation, HTTP, authentication, the database, administration, replay of finished
  games: request and response over a database, without a protocol of their own.
* The browser clients (most of the repository's lines), sound, songs and texts, voice
  channels and what spectators are shown: they send actions or show states.
* The evaluator and the learned models of the bots: they order legal plans.
* The draw stack and the penalty queue have no bound in the code but the cards there
  are (`rules/stacking.ts:40`); `ShortQueue` cuts the queue in `classic`.
* A zero rotation keeps UNO calls with the players while the hands move, so a call may meet a hand of more than two cards. It shows
  only with hands larger than the runs' decks give; `CallsAreVoided` is about games without that rule.

## Plan

1. Done: the game with its house rules and automatic players, the persister, the
   locks and the shutdown, the turn driver, membership, the round terminal and the adapter's client; proofs of the game's
   type, cards, hands, result, errors, challenges, penalties, points, skipped turns and automatic play, of the persister's safety and refinement, of the locks and the shutdown, and of the
   safety of the turn driver, of membership, of the round terminal and of the adapter's client.
2. An abstract specification `CardTable` (cards change place, one player is awaited, a
   round is decided once) and `UnoGame` shown to implement it.
3. Seat swaps and failing writes in `RoomMembership`; bots' jump-ins, UNO calls and catches
   in `AutomatedPlay`; a third player in `terminal`.
