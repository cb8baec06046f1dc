---------------------------- MODULE BankerTable ----------------------------
(***************************************************************************)
(* One table of the banker game twoeight: players queue to be the banker   *)
(* by locking part of their coin, the others bet against the banker, and   *)
(* every round is settled between the banker and the bets.  The queue, the *)
(* locked coin and the fees are the game server's (game_table.cpp), the    *)
(* rounds are the game's own (twoeight_server/game_imple_table.cpp).       *)
(*                                                                         *)
(* An action is one message handler or one tick.  The tick that finds no   *)
(* banker asks the robots one after the other: each takes a step, and      *)
(* while it runs (`asking.on`) no other action is enabled.                 *)
(*                                                                         *)
(* Cards are left out: a round ends with any multiple a hand may have, won *)
(* or lost, in each area.  Where the code compares an amount with a fixed  *)
(* figure, the figure is a constant, so that small amounts show the cases. *)
(***************************************************************************)
EXTENDS Sums, Sequences

CONSTANTS
    Player,          \* those who may come to the table
    Robot,           \* the players that are robots
    NoOne,           \* m_pCurBanker == NULL
    Start,           \* the balances the players may bring
    MaxBet,          \* bound: what one message bets in an area
    BetArea,         \* bound: the areas the messages name
    MaxInt,          \* the largest int64
    MaxOverflows,    \* bound: the requests whose sum does not fit it
    Rate,            \* m_iMaxJettonRate, the largest multiple of a hand
    FeeRate,         \* m_conf.feeValue, in percent of what is won
    EnterMin,        \* the table's limit on a balance that enters
    JettonMin,       \* and on a balance that may bet
    Condition,       \* GetApplyBankerCondition
    Limit,           \* GetApplyBankerConditionLimit
    Chip,            \* what a robot's buy-in is rounded down to
    RobotApplySize,  \* m_robotApplySize
    RobotRounds,     \* rounds after which a robot banker may step down
    JumpCost,        \* GetJumpQueueCost
    MinRounds,       \* rounds a banker has to stay
    BankerTimeLimit, \* m_BankerTimeLimit
    EarlyPro,        \* the percentage taken by the rounds a banker stayed
    EarlyWin         \* and the win above which it is taken

ASSUME PlayerAssumption ==
    IsFiniteSet(Player) /\ Robot \subseteq Player /\ NoOne \notin Player
ASSUME StartAssumption == Start \subseteq [Player -> Nat]
ASSUME RateAssumption == Rate \in Nat \ {0} /\ FeeRate \in 0 .. 100
ASSUME ConditionAssumption ==
    /\ Condition \in Nat \ {0} /\ Chip \in Nat \ {0}
    /\ Limit \in Nat /\ Limit >= 2 * Condition
ASSUME CostAssumption ==
    /\ {EnterMin, JettonMin, JumpCost, MaxBet, EarlyWin} \subseteq Nat
    /\ {RobotApplySize, RobotRounds, MinRounds, BankerTimeLimit} \subseteq Nat
    /\ EarlyPro \in [DOMAIN EarlyPro -> 0 .. 100]

(* ID_SHUN_MEN, ID_TIAN_MEN, ID_DI_MEN.                                    *)
Area == 0 .. 2
Bets == [Area -> Nat]
NoBets == [a \in Area |-> 0]

ASSUME AreaAssumption == BetArea \subseteq Area
ASSUME IntAssumption == MaxInt \in Nat /\ MaxOverflows \in Nat

VARIABLES
    state,    \* m_gameState
    here,     \* the players of the table, seated or looking on
    tb,       \* the table's money, its banker and its queue
    online,   \* the players whose m_netState is 1
    mayBet,   \* those whose balance at entry was not below JettonMin
    open,     \* m_bCanGameStart
    asking,   \* the tick's loop over the robots: those still to ask
    jumped,   \* history: those who paid for the queue since the bets opened
    overflows \* history: the accepted requests whose sum had wrapped

vars == <<state, here, tb, online, mayBet, open, asking, jumped, overflows>>

-----------------------------------------------------------------------------
State == {"free", "jetton", "end"}

Bank ==
    [score : Int,       \* m_lBankerScore
     buyin : Int,       \* m_lBankerBuyinScore
     init : Int,        \* m_lBankerInitBuyinScore
     auto : BOOLEAN,    \* m_bankerAutoAddScore
     leave : BOOLEAN,   \* m_needLeaveBanker
     time : Nat,        \* m_wBankerTime
     win : Int]         \* m_lBankerWinScore

NoBank == [score |-> 0, buyin |-> 0, init |-> 0, auto |-> FALSE,
           leave |-> FALSE, time |-> 0, win |-> 0]

Tb ==
    [banker : Player \cup {NoOne},  \* m_pCurBanker
     bank : Bank,
     list : Seq(Player),            \* m_ApplyUserArray
     lock : [Player -> Nat],        \* m_ApplyUserScore of those in the list
     auto : SUBSET Player,          \* m_mpApplyUserInfo == 1
     coin : [Player -> Nat],        \* GetPlayerCurScore
     bets : [Player -> Bets],       \* m_userJettonScore
     all : Nat]                     \* m_allJettonScore, over the areas

TypeOK ==
    /\ state \in State
    /\ here \subseteq Player
    /\ tb \in Tb
    /\ online \subseteq Player
    /\ mayBet \subseteq Player
    /\ open \in BOOLEAN
    /\ asking \in [on : BOOLEAN, left : SUBSET Robot]
    /\ jumped \subseteq Player
    /\ overflows \in Nat

Init ==
    /\ state = "free"
    /\ here = {}
    /\ tb \in [banker : {NoOne}, bank : {NoBank}, list : {<<>>},
               lock : {[p \in Player |-> 0]}, auto : {{}}, coin : Start,
               bets : {[p \in Player |-> NoBets]}, all : {0}]
    /\ online = {}
    /\ mayBet = {}
    /\ open = FALSE
    /\ asking = [on |-> FALSE, left |-> {}]
    /\ jumped = {}
    /\ overflows = 0

-----------------------------------------------------------------------------
Signed(n) == n   \* fault: a balance may go below zero

(* What is left of a sum in an int64.                                      *)
Wrap(n) == ((n + MaxInt + 1) % (2 * (MaxInt + 1))) - (MaxInt + 1)

Max0(n) == IF n < 0 THEN 0 ELSE n
Min2(m, n) == IF m < n THEN m ELSE n

(* What a player has bet, what the multiples m of the areas win on it and  *)
(* what they lose, and the fee on what is won.                             *)
Total(b) == b[0] + b[1] + b[2]
Bet(w, p) == Total(w.bets[p])
Gross(b, m) == Max0(b[0] * m[0]) + Max0(b[1] * m[1]) + Max0(b[2] * m[2])
Loss(b, m) == Max0(-b[0] * m[0]) + Max0(-b[1] * m[1]) + Max0(-b[2] * m[2])
DeducEndFee(won) == (Max0(won) * FeeRate) \div 100

IsInApplyList(w, p) == \E i \in DOMAIN w.list : w.list[i] = p
IsSetJetton(w, p) == state # "end" /\ Bet(w, p) > 0

CanLeaveWithJetton(w, p) ==    \* fault: no IsSetJetton
    w.banker # p /\ ~IsInApplyList(w, p)

CanLeaveTable(w, p) ==
    w.banker # p /\ ~IsSetJetton(w, p) /\ ~IsInApplyList(w, p)

(* Those of the list up to place n are taken off it and get back the coin  *)
(* that was locked for them.                                               *)
Unlock(w, out) ==
    [w EXCEPT !.coin = [p \in Player |->
                          IF p \in out THEN @[p] + w.lock[p] ELSE @[p]],
              !.lock = [p \in Player |-> IF p \in out THEN 0 ELSE @[p]],
              !.auto = @ \ out]

RemoveApplyBanker(w, p) ==
    IF IsInApplyList(w, p)
    THEN LET i == CHOOSE i \in DOMAIN w.list : w.list[i] = p
         IN  [Unlock(w, {p}) EXCEPT
                !.list = SubSeq(@, 1, i - 1) \o SubSeq(@, i + 1, Len(@))]
    ELSE w

-----------------------------------------------------------------------------
(* Choosing the banker.  TakeTurns only acts between two rounds.  It       *)
(* passes over those who are gone, and takes them off the list; nobody who *)
(* is online is passed over, as what is locked is never below Condition.   *)
Eligible(w, i) == w.list[i] \in online /\ w.lock[w.list[i]] >= Condition

First(w) == CHOOSE i \in DOMAIN w.list :
                Eligible(w, i) /\ \A j \in 1 .. i - 1 : ~Eligible(w, j)

Before(w, n) == {w.list[i] : i \in 1 .. n}

TakeTurns(w) ==
    IF state # "free"
    THEN w
    ELSE IF \A i \in DOMAIN w.list : ~Eligible(w, i)
    THEN [Unlock(w, Before(w, Len(w.list))) EXCEPT !.list = <<>>]
    ELSE LET i == First(w)
             p == w.list[i]
             n == w.lock[p]
         IN  [Unlock(w, Before(w, i)) EXCEPT
                !.list = SubSeq(@, i + 1, Len(@)),
                !.banker = p,
                !.bank = [score |-> n, buyin |-> n, init |-> n,
                          auto |-> p \in w.auto, leave |-> FALSE,
                          time |-> 0, win |-> 0]]

(* The banker's buy-in is topped up from the rest of its balance.          *)
AutoAddBankerScore(w) ==
    LET b == w.bank
        diff == Min2(b.init - b.score, w.coin[w.banker] - b.score)
    IN  IF /\ b.auto /\ ~b.leave /\ b.time < BankerTimeLimit
           /\ diff > 0
           /\ b.buyin + diff >= Condition
        THEN [w EXCEPT !.bank.buyin = @ + diff, !.bank.score = @ + diff]
        ELSE w

ResetGameData(w) ==
    [w EXCEPT !.banker = NoOne, !.bank = NoBank, !.all = 0,
              !.bets = [p \in Player |-> NoBets]]

EarlyFee(b) ==
    IF b.win > EarlyWin /\ b.time \in DOMAIN EarlyPro
    THEN (b.win * EarlyPro[b.time]) \div 100
    ELSE 0

CalcBankerScore(w) ==
    LET p == w.banker
    IN  ResetGameData(RemoveApplyBanker(
            [w EXCEPT !.coin[p] = Max0(@ - EarlyFee(w.bank))], p))

(* ChangeBanker(false); nothing in the code reaches ChangeBanker(true), as *)
(* no banker is in the list.                                               *)
StepsDown(b) ==
    b.leave \/ BankerTimeLimit <= b.time \/ b.score < Condition

ChangeBankerSeated(w) ==   \* fault: an empty seat is not looked at
    IF w.banker = NoOne
    THEN w
    ELSE LET v == AutoAddBankerScore(w)
         IN  IF StepsDown(v.bank) THEN TakeTurns(CalcBankerScore(v)) ELSE v

ChangeBanker(w) ==
    IF w.banker = NoOne
    THEN TakeTurns(w)
    ELSE LET v == AutoAddBankerScore(w)
         IN  IF StepsDown(v.bank) THEN TakeTurns(CalcBankerScore(v)) ELSE v

-----------------------------------------------------------------------------
(* Betting.                                                                *)
GetUserMaxJettonAlone(w, p) ==   \* fault: the others' bets are not counted
    Max0(Min2((w.coin[p] - Bet(w, p) * Rate) \div Rate,
              (w.bank.score - Bet(w, p) * Rate) \div Rate))

GetUserMaxJettonOnce(w, p) ==   \* fault: bets count once
    Max0(Min2(w.coin[p] - Bet(w, p), w.bank.score - w.all))

GetUserMaxJetton(w, p) ==
    Max0(Min2((w.coin[p] - Bet(w, p) * Rate) \div Rate,
              (w.bank.score - w.all * Rate) \div Rate))

CanBet(w, p, n) ==
    /\ state = "jetton"
    /\ p # w.banker
    /\ p \in mayBet
    /\ w.coin[p] >= Bet(w, p) + n
    /\ GetUserMaxJetton(w, p) >= n

AddBets(w, p, b) ==
    [w EXCEPT !.bets[p] = [a \in Area |-> @[a] + b[a]], !.all = @ + Total(b)]

(* Applying for the banker's seat.  The sort leaves the larger amounts in  *)
(* front; how it leaves equal ones among each other is left open.          *)
Sorted(w) ==
    {s \in [1 .. Len(w.list) -> Player] :
        /\ \A i, j \in DOMAIN s : s[i] = s[j] => i = j
        /\ \A p \in Player : IsInApplyList(w, p) <=> \E i \in DOMAIN s : s[i] = p
        /\ \A i, j \in DOMAIN s : i < j => w.lock[s[i]] >= w.lock[s[j]]}

CanApplyAsBanker(w, p, n) ==   \* fault: the banker may queue again
    /\ ~IsSetJetton(w, p)
    /\ n <= w.coin[p] /\ n >= Condition /\ n <= Limit
    /\ ~IsInApplyList(w, p)

CanApplyWithJetton(w, p, n) ==   \* fault: bets may be out
    /\ w.banker # p
    /\ n <= w.coin[p] /\ n >= Condition /\ n <= Limit
    /\ ~IsInApplyList(w, p)

CanApply(w, p, n) ==
    /\ w.banker # p
    /\ ~IsSetJetton(w, p)
    /\ n <= w.coin[p] /\ n >= Condition /\ n <= Limit
    /\ ~IsInApplyList(w, p)

LockApplyScore(w, p, n) == [w EXCEPT !.coin[p] = @ - n, !.lock[p] = n]

QueueAnytime(w, p, n, auto) ==   \* fault: GetGameState is not looked at
    LET v == [LockApplyScore(w, p, n) EXCEPT
                !.list = Append(@, p),
                !.auto = IF auto THEN @ \cup {p} ELSE @ \ {p}]
    IN  IF Len(v.list) = 1 THEN ChangeBanker(v) ELSE v

Queue(w, p, n, auto) ==
    LET v == [LockApplyScore(w, p, n) EXCEPT
                !.list = Append(@, p),
                !.auto = IF auto THEN @ \cup {p} ELSE @ \ {p}]
    IN  IF state = "free" /\ Len(v.list) = 1 THEN ChangeBanker(v) ELSE v

Applied(w, p, n, auto) ==
    LET v == Queue(w, p, n, auto)
    IN  {[v EXCEPT !.list = s] : s \in Sorted(v)}

-----------------------------------------------------------------------------
(* The end of a round: the multiples m, negative where the banker wins.    *)
Outcome == [Area -> (-Rate .. Rate) \ {0}]

Won(w, p, m) ==
    Gross(w.bets[p], m) - Loss(w.bets[p], m) - DeducEndFee(Gross(w.bets[p], m))

BankerWonAll(w, m) ==   \* fault: what an area pays out is not taken off
    LET gross == Sum([p \in here |-> Loss(w.bets[p], m)])
    IN  gross - DeducEndFee(gross)

BankerWon(w, m) ==
    LET gross == Sum([p \in here |-> Loss(w.bets[p], m)])
        lost == Sum([p \in here |-> Gross(w.bets[p], m)])
    IN  gross - lost - DeducEndFee(gross)

SettleUncounted(w, m) ==   \* fault: the round is not counted
    LET n == BankerWon(w, m)
    IN  [w EXCEPT
          !.coin = [p \in Player |->
              CASE p = w.banker -> Max0(@[p] + n)
                [] p \in here /\ p # w.banker -> Max0(@[p] + Won(w, p, m))
                [] OTHER -> @[p]],
          !.bank.score = @ + n, !.bank.win = @ + n]

Settle(w, m) ==
    LET n == BankerWon(w, m)
    IN  [w EXCEPT
          !.coin = [p \in Player |->
              CASE p = w.banker -> Max0(@[p] + n)
                [] p \in here /\ p # w.banker -> Max0(@[p] + Won(w, p, m))
                [] OTHER -> @[p]],
          !.bank.score = @ + n, !.bank.win = @ + n, !.bank.time = @ + 1]

(* A robot may step down when it has won enough; OnUserCancelBanker.       *)
RobotCancels(w) ==
    /\ w.banker \in Robot
    /\ w.bank.time > RobotRounds /\ w.bank.win > w.bank.buyin \div 2
    /\ w.bank.time >= MinRounds

-----------------------------------------------------------------------------
(* The handlers and the ticks.                                             *)
Sends(p) == ~asking.on /\ p \in here \cap online
Client(p) == Sends(p) /\ p \notin Robot

CanEnterTable(p) == p \notin here /\ tb.coin[p] >= EnterMin

EnterTable(p) ==
    /\ ~asking.on
    /\ CanEnterTable(p)
    /\ here' = here \cup {p}
    /\ online' = online \cup {p}
    /\ mayBet' = IF tb.coin[p] >= JettonMin THEN mayBet \cup {p} ELSE mayBet \ {p}
    /\ UNCHANGED <<state, tb, open, asking, jumped, overflows>>

OnLeave(p) ==
    /\ here' = here \ {p}
    /\ mayBet' = mayBet \ {p}
    /\ tb' = [RemoveApplyBanker(tb, p) EXCEPT !.bets[p] = NoBets]

LeaveTable(p) ==
    /\ Sends(p)
    /\ CanLeaveTable(tb, p)
    /\ OnLeave(p)
    /\ UNCHANGED <<state, online, open, asking, jumped, overflows>>

SetNetStateOff(p) ==
    /\ Client(p)
    /\ online' = online \ {p}
    /\ IF CanLeaveTable(tb, p)
       THEN OnLeave(p)
       ELSE UNCHANGED <<here, mayBet, tb>>
    /\ UNCHANGED <<state, open, asking, jumped, overflows>>

SetNetStateOn(p) ==
    /\ ~asking.on
    /\ p \in here \ online
    /\ online' = online \cup {p}
    /\ UNCHANGED <<state, here, tb, mayBet, open, asking, jumped, overflows>>

(* The tick that recovers those who are gone.                              *)
NeedRecover(p) ==
    /\ ~asking.on
    /\ p \in here \ online
    /\ CanLeaveTable(tb, p)
    /\ OnLeave(p)
    /\ UNCHANGED <<state, online, open, asking, jumped, overflows>>

OnUserPlaceJetton(p) ==
    /\ Sends(p)
    /\ \E a \in BetArea, n \in 1 .. MaxBet :
          /\ CanBet(tb, p, n)
          /\ tb' = AddBets(tb, p, [NoBets EXCEPT ![a] = n])
    /\ UNCHANGED <<state, here, online, mayBet, open, asking, jumped, overflows>>

(* The sum of what a request names is kept in an int64 and wraps: it is    *)
(* the wrapped sum that is checked, and the bets that are recorded.        *)
OnUserContinuousPressure(p) ==
    /\ Client(p)
    /\ \E c \in [BetArea -> 0 .. MaxBet] :
          LET b == [a \in Area |-> IF a \in BetArea THEN c[a] ELSE 0]
          IN  /\ Total(b) > 0
              /\ CanBet(tb, p, Wrap(Total(b)))
              /\ tb' = AddBets(tb, p, b)
              /\ IF Wrap(Total(b)) = Total(b)
                 THEN overflows' = overflows
                 ELSE overflows < MaxOverflows /\ overflows' = overflows + 1
    /\ UNCHANGED <<state, here, online, mayBet, open, asking, jumped>>

OnUserApplyBanker(p) ==
    /\ Client(p)
    /\ \E n \in 1 .. Limit, auto \in BOOLEAN :
          /\ CanApply(tb, p, n)
          /\ tb' \in Applied(tb, p, n, auto)
    /\ UNCHANGED <<state, here, online, mayBet, open, asking, jumped, overflows>>

OnUserJumpApplyQueue(p) ==
    /\ Client(p)
    /\ tb.coin[p] >= JumpCost
    /\ \E i \in DOMAIN tb.list :
          /\ tb.list[i] = p /\ i # 1
          /\ tb' = [tb EXCEPT
                      !.list = <<p>> \o SubSeq(@, 1, i - 1)
                                     \o SubSeq(@, i + 1, Len(@)),
                      !.coin[p] = @ - JumpCost]
    /\ jumped' = jumped \cup {p}
    /\ UNCHANGED <<state, here, online, mayBet, open, asking, overflows>>

(* A banker that cancels between two rounds is not heard: the handler goes *)
(* on to search the list, where no banker is.                              *)
OnUserCancelBanker(p) ==
    /\ Client(p)
    /\ ~(p = tb.banker /\ tb.bank.time < MinRounds)
    /\ tb' = IF p = tb.banker /\ state # "free"
             THEN [tb EXCEPT !.bank.leave = TRUE]
             ELSE RemoveApplyBanker(tb, p)
    /\ UNCHANGED <<state, here, online, mayBet, open, asking, jumped, overflows>>

(* A controller forces a player out of the seat and out of the list.       *)
OnBrcControlApplePlayer(p) ==
    /\ ~asking.on
    /\ p \in here
    /\ tb' = RemoveApplyBanker(
                IF p = tb.banker /\ state # "free"
                THEN [tb EXCEPT !.bank.leave = TRUE]
                ELSE tb, p)
    /\ UNCHANGED <<state, here, online, mayBet, open, asking, jumped, overflows>>

-----------------------------------------------------------------------------
CheckRoomCanGameStart ==
    /\ ~open
    /\ ~asking.on
    /\ open' = TRUE
    /\ UNCHANGED <<state, here, tb, online, mayBet, asking, jumped, overflows>>

(* OnGameStart with a banker.                                              *)
StartRound ==
    /\ ~asking.on
    /\ state = "free" /\ open /\ tb.banker # NoOne
    /\ state' = "jetton"
    /\ jumped' = {}
    /\ UNCHANGED <<here, tb, online, mayBet, open, asking, overflows>>

(* OnGameStart without one: CheckRobotApplyBanker, then ChangeBanker.      *)
CheckRobotApplyBanker ==
    /\ ~asking.on
    /\ state = "free" /\ open /\ tb.banker = NoOne
    /\ asking' = [on |-> TRUE,
                  left |-> IF Len(tb.list) >= RobotApplySize
                           THEN {} ELSE Robot \cap here]
    /\ UNCHANGED <<state, here, tb, online, mayBet, open, jumped, overflows>>

(* What a robot with this balance asks for, 0 for nothing.                 *)
RobotBuyin(coin) ==
    CASE coin < Condition -> {0}
      [] coin >= Condition /\ coin < 2 * Condition -> {0, coin}
      [] OTHER -> 2 * Condition .. Min2(coin, Limit)

AskRobot(r) ==
    /\ asking.on
    /\ r \in asking.left
    /\ \E n \in RobotBuyin(tb.coin[r]) :
          LET m == (n \div Chip) * Chip
          IN  IF n > 0 /\ CanApply(tb, r, m)
              THEN tb' \in Applied(tb, r, m, n >= 2 * Condition)
              ELSE tb' = tb
    /\ asking' = [asking EXCEPT !.left =
                    IF Len(tb'.list) > RobotApplySize THEN {} ELSE @ \ {r}]
    /\ UNCHANGED <<state, here, online, mayBet, open, jumped, overflows>>

OnGameStartWithoutBanker ==
    /\ asking.on
    /\ asking.left = {}
    /\ asking' = [on |-> FALSE, left |-> {}]
    /\ tb' = ChangeBanker(tb)
    /\ UNCHANGED <<state, here, online, mayBet, open, jumped, overflows>>

(* OnGameEnd.                                                              *)
EndRound ==
    /\ ~asking.on
    /\ state = "jetton"
    /\ state' = "end"
    /\ \E m \in Outcome :
          LET w == Settle(tb, m)
          IN  \/ tb' = w
              \/ RobotCancels(w) /\ tb' = [w EXCEPT !.bank.leave = TRUE]
    /\ UNCHANGED <<here, online, mayBet, open, asking, jumped, overflows>>

ClearTurnGameData(w) ==
    [w EXCEPT !.all = 0, !.bets = [p \in Player |-> NoBets]]

(* The state is still "end" while ChangeBanker runs.                       *)
ChangeTurn ==
    /\ ~asking.on
    /\ state = "end"
    /\ state' = "free"
    /\ tb' = ChangeBanker(ClearTurnGameData(tb))
    /\ UNCHANGED <<here, online, mayBet, open, asking, jumped, overflows>>

-----------------------------------------------------------------------------
Handler(p) ==
    \/ EnterTable(p) \/ LeaveTable(p)
    \/ SetNetStateOff(p) \/ SetNetStateOn(p) \/ NeedRecover(p)
    \/ OnUserPlaceJetton(p) \/ OnUserContinuousPressure(p)
    \/ OnUserApplyBanker(p) \/ OnUserJumpApplyQueue(p)
    \/ OnUserCancelBanker(p) \/ OnBrcControlApplePlayer(p)

OnTimeTick ==
    \/ StartRound \/ EndRound \/ ChangeTurn
    \/ CheckRobotApplyBanker \/ OnGameStartWithoutBanker
    \/ \E r \in Robot : AskRobot(r)

Next ==
    \/ \E p \in Player : Handler(p)
    \/ OnTimeTick
    \/ CheckRoomCanGameStart

Spec == Init /\ [][Next]_vars

(* The server's timers call OnTimeTick and the room's check for ever.      *)
FairSpec == Spec /\ WF_vars(OnTimeTick) /\ WF_vars(CheckRoomCanGameStart)

-----------------------------------------------------------------------------
(* What makes the table right.                                             *)

(* While bets are taken the banker is at the table and can pay every bet   *)
(* at the highest multiple, out of the score it put up, and holds that     *)
(* score: whatever joins, leaves, queues, is topped up, settled or paid    *)
(* for between the check of a bet and the settlement                       *)
(* (GetUserMaxJetton, AutoAddBankerScore, OnUserJumpApplyQueue).  Only a   *)
(* request whose sum wraps gets past the check (OnUserContinuousPressure); *)
(* nothing is said of the amounts from then on.                            *)
BankerCovers ==
    /\ tb.banker # NoOne =>
          /\ tb.banker \in here
          /\ overflows > 0 \/ tb.bank.score <= tb.coin[tb.banker]
    /\ state = "jetton" =>
          /\ tb.banker # NoOne
          /\ overflows > 0 \/ Rate * tb.all <= tb.bank.score

(* Whoever has bet holds what it may lose, unless it has paid for the      *)
(* queue since, or a request's sum has wrapped: the only ways by which a   *)
(* bet's cover leaves the balance or is never there.  The lock of an       *)
(* application cannot take it, as IsSetJetton refuses one.                 *)
BettorCovers ==
    state = "jetton" /\ overflows = 0 =>
        \A p \in Player \ jumped : Rate * Bet(tb, p) <= tb.coin[p]

(* What is locked belongs to those in the list and to nobody else: no      *)
(* player is there twice, none is the banker, and none has left the table, *)
(* so that every locked coin is given back (LockApplyScore,                *)
(* RemoveApplyBanker, TakeTurns, CanLeaveTable).                           *)
LockConsistent ==
    /\ \A i, j \in DOMAIN tb.list : tb.list[i] = tb.list[j] => i = j
    /\ \A p \in Player :
          IF IsInApplyList(tb, p)
          THEN p \in here /\ p # tb.banker /\ tb.lock[p] \in Condition .. Limit
          ELSE tb.lock[p] = 0

(* While bets are open the total kept by area, against which bets are      *)
(* checked, is the sum of the players' bets, from which the round is       *)
(* settled: leaving erases the one and not the other (OnPlayerJoin).       *)
TotalsAgree ==
    state = "jetton" =>
        tb.all = Sum([p \in Player |-> Bet(tb, p)])

(* No step makes coin out of nothing: a round moves coin between the       *)
(* banker and the bettors and takes fees, an application locks it, and     *)
(* nothing else adds to it.  "Or the accounts do not balance", says        *)
(* CalcPlayerInfo.  A bettor that paid for the queue is excepted: what it  *)
(* can no longer pay the banker is credited all the same; and so is a      *)
(* request whose sum has wrapped, as nobody need cover what it bets.       *)
Held(w) == Sum([p \in Player |-> w.coin[p] + w.lock[p]])

NothingMinted ==
    [][jumped = {} /\ overflows = 0 => Held(tb') <= Held(tb)]_vars

(* As the comment has it, without the exception.                           *)
AccountsBalance == [][Held(tb') <= Held(tb)]_vars

(* The banker is only replaced between two rounds: from the first bet to   *)
(* the end of the settlement it is the same one.                           *)
BankerStays ==
    [][tb'.banker # tb.banker =>
          state = "free" \/ (state = "end" /\ state' = "free")]_vars

(* The seat is filled: with somebody waiting in the list and online, there *)
(* is a banker before long, or nobody is waiting any more; whoever comes   *)
(* and goes, and whatever is sorted to the front meanwhile.                *)
Waiting == \E p \in Player : IsInApplyList(tb, p) /\ p \in online

SeatFilled == Waiting /\ tb.banker = NoOne ~> tb.banker # NoOne \/ ~Waiting

(* Every banker's turn ends, even of one that wins and never asks to       *)
(* leave: only then are its coin and its place at the table its own again. *)
TurnEnds == tb.banker # NoOne ~> tb.banker = NoOne

=============================================================================
