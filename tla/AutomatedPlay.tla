--------------------------- MODULE AutomatedPlay ---------------------------
(***************************************************************************)
(* What the server plays for somebody who does not: the autopilot of an    *)
(* idle or absent human (shared/src/rules/autopilot-strategy.ts), a rule   *)
(* bot (rules/bot/bot-strategy.ts) and the plans a learned bot chooses     *)
(* from (rules/bot/legal-action-plans.ts).                                 *)
(*                                                                         *)
(* A chooser returns a plan, a list of actions.  Here it is the set of the *)
(* actions the plan may begin with: the hand has no order, a mistake and a *)
(* random choice may take any candidate, and the scores of the evaluator   *)
(* order the candidates but drop none.  The rest of a plan (the colour of  *)
(* a wild card, a chain of equal numbers) is only a preference: when the   *)
(* server stops in its middle, it asks again in the state it has reached.  *)
(*                                                                         *)
(* The cycle guard replaces a plan that has been repeated by a legal one.  *)
(* In the phase "playing" a colour is in force (EngineNeverThrows).        *)
(***************************************************************************)
EXTENDS UnoProperties

Play(c, chosen) == [type |-> "PLAY_CARD", card |-> c, chosenColor |-> chosen]
Draw(side) == [type |-> "DRAW_CARD", side |-> side]
ChooseColorOf(chosen) == [type |-> "CHOOSE_COLOR", color |-> chosen]
SwapWith(target) == [type |-> "CHOOSE_SWAP_TARGET", targetId |-> target]
Plainly(actionType) == [type |-> actionType]

(***************************************************************************)
(* Parts of the choosers                                                   *)
(***************************************************************************)
(* The colours of which the hand has most.                                  *)
bestColor(hand) ==
    LET count(x) == Cardinality({c \in hand : color[c] = x})
    IN  {x \in Color : \A y \in Color : count(y) <= count(x)}

(* Faulty: the colour of a stacked Wild Draw Four is left for later.        *)
playCardActionsColorless(colors, cards, chooseColorOnPlay) ==
    {Play(c, null) : c \in cards}

(* A Wild Draw Four put on a stack says its colour at once.                 *)
playCardActions(colors, cards, chooseColorOnPlay) ==
    UNION {{Play(c, x) :
            x \in IF chooseColorOnPlay /\ type[c] = "wild_draw_four"
                  THEN colors ELSE {null}} :
           c \in cards}

getPlayableCards(s, p) ==
    {c \in s.hand[p] : /\ s.currentColor # null
                       /\ canPlayCard(c, topCard(s), s.currentColor)}

pickPlayableCard(s, playable) ==
    LET matching == {c \in playable : color[c] = s.currentColor}
        colored == {c \in playable : ~isWildCard(c)}
    IN  CASE matching # {} -> matching
          [] matching = {} /\ colored # {} -> colored
          [] OTHER -> playable

(* Cards a bot may finish with.                                             *)
notFinishBlocked(s, p, cards) ==
    {c \in cards : ~isFinishRestrictedLastCard(s, p, c)}

stackable(s, p) == {c \in s.hand[p] : stacksOnStack(s, c)}

stackableOnChallenge(s, p) == {c \in s.hand[p] : stacksOnChallenge(s, c)}

(* A stack is deflected by any card with the rule for it ...                *)
deflectable(s, p) ==
    {c \in s.hand[p] : deflectsWithReverse(s, c) \/ deflectsWithSkip(s, c)}

(* ... and a Wild Draw Four by a Reverse before a Skip.                     *)
preferReverse(cards) ==
    LET reverses == {c \in cards : type[c] = "reverse"}
    IN  IF reverses # {} THEN reverses ELSE cards

(***************************************************************************)
(* The phase "playing", which the autopilot and the bots treat alike: they *)
(* differ in the cards they would play and in what they answer to a stack. *)
(***************************************************************************)

(* Faulty: a player at the hand limit draws.                                *)
wouldDrawAtLimit(s, p) ==
    /\ hasCardsAvailable(s)
    /\ \/ hasPendingDrawObligation(s)
       \/ completedDraw(s, p) => On(s, "drawUntilPlayable")

(* Who plays nothing draws what he owes, once in his turn, or until a card  *)
(* can be played.                                                           *)
wouldDraw(s, p) ==
    /\ hasCardsAvailable(s)
    /\ \/ hasPendingDrawObligation(s)
       \/ /\ ~atHandLimit(s, p)
          /\ completedDraw(s, p) => On(s, "drawUntilPlayable")

choosePlay(s, p, sides, plays, answers) ==
    LET wanted == CASE s.pendingPenaltyDraws > 0 -> {}
                    [] s.pendingPenaltyDraws = 0 /\ s.drawStack > 0 -> answers
                    [] OTHER -> plays
    IN  CASE wanted # {} -> wanted
          [] wanted = {} /\ wouldDraw(s, p) -> {Draw(side) : side \in sides}
          [] OTHER -> {Plainly("PASS")}

(***************************************************************************)
(* The autopilot                                                           *)
(***************************************************************************)
autopilotAnswers(s, p) ==
    playCardActions(bestColor(s.hand[p]),
                    IF stackable(s, p) # {} THEN stackable(s, p)
                                            ELSE deflectable(s, p), TRUE)

autopilotChallenged(s, p) ==
    LET cards == IF stackableOnChallenge(s, p) # {}
                 THEN stackableOnChallenge(s, p)
                 ELSE preferReverse(deflectable(s, p))
    IN  IF cards # {} THEN playCardActions(bestColor(s.hand[p]), cards, TRUE)
                      ELSE {Plainly("ACCEPT")}

swapTargets(s, p) == AliveSeats(s.eliminated) \ {p}

fewestCards(s, seats) ==
    {q \in seats : \A r \in seats :
        Cardinality(s.hand[q]) <= Cardinality(s.hand[r])}

chooseAutopilotAction(s, p) ==
    CASE s.phase = "playing" ->
           choosePlay(s, p, {LongerSide(s)},
                      playCardActions(bestColor(s.hand[p]),
                         pickPlayableCard(s, getPlayableCards(s, p)), FALSE),
                      autopilotAnswers(s, p))
      [] s.phase = "challenging" -> autopilotChallenged(s, p)
      [] s.phase = "choosing_color" ->
           {ChooseColorOf(x) : x \in bestColor(s.hand[p])}
      [] s.phase = "choosing_swap_target" ->
           {SwapWith(q) : q \in fewestCards(s, swapTargets(s, p))}

(***************************************************************************)
(* A rule bot of any difficulty and personality                            *)
(***************************************************************************)
(* Without a discard to put back, a bot leaves an empty side alone.         *)
chooseDrawSide(s) ==
    IF Len(s.discardPile) > 1 \/ \A side \in DrawSide : s.deck[side] = {}
    THEN DrawSide
    ELSE {side \in DrawSide : s.deck[side] # {}}

handlePlaying(s, p) ==
    choosePlay(s, p, chooseDrawSide(s),
               playCardActions(Color,
                  notFinishBlocked(s, p, getPlayableCards(s, p)), FALSE),
               playCardActions(Color,
                  stackable(s, p) \cup deflectable(s, p), TRUE))

handleChallenging(s, p) ==
    LET cards == stackableOnChallenge(s, p) \cup deflectable(s, p)
        accept == {Plainly("ACCEPT")}
        plays == playCardActions(Color, cards, TRUE)
    IN  CASE cards # {} ->
               IF s.drawStack > 0 /\ cards \subseteq Wild
               THEN plays \cup accept ELSE plays
          [] cards = {} /\ On(s, "noChallengeWildFour") -> accept
          [] OTHER -> accept \cup {Plainly("CHALLENGE")}

chooseBotAction(s, p) ==
    CASE s.phase = "playing" -> handlePlaying(s, p)
      [] s.phase = "challenging" -> handleChallenging(s, p)
      [] s.phase = "choosing_color" -> {ChooseColorOf(x) : x \in Color}
      [] s.phase = "choosing_swap_target" ->
           {SwapWith(q) : q \in swapTargets(s, p)}

(***************************************************************************)
(* Whether the rules accept an action of the player the game waits for     *)
(***************************************************************************)
acceptsPlay(p, c, chosen) ==
    /\ noPenaltyPending
    /\ \/ /\ finishRestrictionsClaims(state, p, c)
          /\ finishRestrictionsAllowed(state, p)
          /\ NoFinishCard(state) => passAllowed(state, p)
       \/ ~claimedBeforeDeflection(p, c) /\ deflectionClaims(state, p, c)
       \/ /\ ~claimedBeforeStacking(p, c)
          /\ stackingClaims(state, p, c)
          /\ stackingAllowed(state, p, c, chosen)
       \/ ~claimedByPlugin(p, c) /\ playCardAllowed(state, p, c)

acceptsDraw(p) ==
    IF stackingClaimsDraw(state)
    THEN IsCurrent(state, p)
    ELSE drawCardAllowed(state, p) /\ ~drawRefused(state, p)

acceptsPass(p) ==
    \/ multiPlayPassClaims(state, p)
    \/ passAllowed(state, p) /\ ~passRefused(state, p)

(* isLegalPlan: the game changes when the plan begins.                      *)
accepts(p, a) ==
    CASE a.type = "PLAY_CARD" -> acceptsPlay(p, a.card, a.chosenColor)
      [] a.type = "DRAW_CARD" -> acceptsDraw(p)
      [] a.type = "PASS" -> acceptsPass(p)
      [] a.type = "ACCEPT" -> respondAllowed(state, p)
      [] a.type = "CHALLENGE" -> /\ ~On(state, "noChallengeWildFour")
                                 /\ challengeAllowed(state, p)
      [] a.type = "CHOOSE_COLOR" -> chooseColorAllowed(state, p)
      [] a.type = "CHOOSE_SWAP_TARGET" ->
           chooseSwapTargetAllowed(state, p, a.targetId)

(* cardPlans: an attack answered with a Wild Draw Four names its colour.    *)
cardPlans(s, c) ==
    CASE ~isWildCard(c) -> {Play(c, null)}
      [] /\ type[c] = "wild_draw_four"
         /\ s.phase = "challenging" \/ s.drawStack > 0
           -> {Play(c, x) : x \in Color}
      [] OTHER -> {Play(c, x) : x \in Color \cup {null}}

(* What enumerateLegalActionPlans tries in a phase.                         *)
candidatePlans(s, p) ==
    LET plays == UNION {cardPlans(s, c) : c \in s.hand[p]}
    IN  CASE s.phase = "choosing_color" -> {ChooseColorOf(x) : x \in Color}
          [] s.phase = "choosing_swap_target" ->
               {SwapWith(q) : q \in swapTargets(s, p)}
          [] s.phase = "challenging" ->
               plays \cup {Plainly("CHALLENGE"), Plainly("ACCEPT")}
          [] s.phase = "playing" ->
               plays \cup {Draw(side) : side \in DrawSide}
                     \cup {Plainly("PASS")}

isLegalPlan(p, a) == a \in candidatePlans(state, p) /\ accepts(p, a)

(***************************************************************************)
(* Properties                                                              *)
(***************************************************************************)

(* Whoever plays for the player the game waits for, the autopilot or a rule *)
(* bot, and whatever the others have done before, makes a move the rules    *)
(* accept.  A refused plan changes nothing and is not recorded, so the same *)
(* state would be given the same plan for ever and the game would stop.     *)
(* Hence there is also a legal plan for the cycle guard and a learned bot.  *)
AutomationActs ==
    ~terminal(state) =>
        LET p == awaitedPlayer(state)
            choices == chooseAutopilotAction(state, p)
                         \cup chooseBotAction(state, p)
        IN  choices # {} /\ \A a \in choices : isLegalPlan(p, a)
=============================================================================
