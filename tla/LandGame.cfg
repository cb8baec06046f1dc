SPECIFICATION FairSpec
CONSTANTS
    Card <- Cards
    Blank = {"0"}
    Back = 9
    Deals <- OneDeal
    Play <- Plays
    Beats <- Higher
    Bomb <- Bombs
    BaseScore = 1
    FeeType = "win"
    FeeRate = 50
    EnterMin = 4
    EnterMax = 4
    Balances = {4}
    Bids = {0, 1, 3}
    Debits = {3}
INVARIANTS TypeOK CardsConserved TurnRight LandlordBidMost
PROPERTIES SettledInFull HandEnds
