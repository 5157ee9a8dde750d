------------------------------ MODULE ApiRoutes ------------------------------
(***************************************************************************)
(* The routes of backend/api-server and the functions they read the chain  *)
(* with.  A reading function is what may come of it: when the node answers *)
(* (well) and when it does not (ill).                                      *)
(*   "some"   what was asked for                                           *)
(*   "none"   null, undefined or an empty list of positions                *)
(*   "part"   less than the chain holds, or mock data in its place         *)
(*   "throw"  an exception                                                 *)
(* queryContractDictionary makes null of every error, so that a getter     *)
(* built on it cannot tell a missing item from a node that failed.         *)
(***************************************************************************)
EXTENDS Naturals, Sequences

QueryContractState == [well |-> {"some"}, ill |-> {"throw"}]
QueryContractDictionary == [well |-> {"some", "none"}, ill |-> {"none"}]
\* Several items one by one, where a missing one is left out of the list or
\* ends it.
DictionaryItems == [well |-> {"some"}, ill |-> {"part"}]

GetAllMarkets == [well |-> QueryContractState.well \cup DictionaryItems.well,
                  ill |-> QueryContractState.ill \cup DictionaryItems.ill]
GetMarketById == QueryContractDictionary
GetUserPositions == QueryContractDictionary
GetLiquidityPoolStats == QueryContractState
GetUserLPInfo == QueryContractDictionary
GetGovernanceProposals == DictionaryItems
GetUserStakingInfo == QueryContractDictionary
GetYieldFarmingPools == DictionaryItems
GetUserFarmingPositions == QueryContractDictionary
GetCurrentOraclePrices == DictionaryItems

\* The prices of the cache, or fresh ones: see UsePrices in ApiServer.
GetCachedPrices == [well |-> {"cached"}, ill |-> {"cached"}]

GetAllLeaders == [well |-> {"some"}, ill |-> {"some"}]
GetLeader == QueryContractDictionary
GetUserCopyRelationships == [well |-> {"some"}, ill |-> {"part"}]
GetLeaderStats == [well |-> {"some"}, ill |-> {"part"}]

\* perps.js asks the node itself, which also fails for a key that is missing.
GetBlockState == [well |-> {"some", "none", "throw"}, ill |-> {"throw"}]
\* A catch for each item, which leaves it out or puts a placeholder.
BlockStates == [well |-> {"some"}, ill |-> {"part"}]

-----------------------------------------------------------------------------
\* A step of a handler, and what it does with "none": answers 404, answers
\* with nothing in the list, or goes on.
Needs(getter) == [does |-> getter, absent |-> "missing"]
Lists(getter) == [does |-> getter, absent |-> "empty"]
Uses(getter) == [does |-> getter, absent |-> "goes on"]

\* A route whose answers are kept for seconds; checked, it may refuse the
\* request before anything else; joined, its reads are a Promise.all.
Cached(seconds, reads) == [ttl |-> seconds, reads |-> reads,
                           checked |-> FALSE, joined |-> FALSE]
Checked(route) == [route EXCEPT !.checked = TRUE]
Joined(route) == [route EXCEPT !.joined = TRUE]
Uncached(reads) == Cached(0, reads)

Markets == Cached(30, <<Uses(GetAllMarkets), Uses(GetCachedPrices)>>)
Market == Cached(30, <<Needs(GetMarketById), Uses(GetCachedPrices)>>)
MarketHistory == Cached(300, <<>>)
MarketStats == Cached(60, <<Needs(GetMarketById)>>)

Positions == Checked(Cached(10, <<Lists(GetUserPositions), Uses(GetCachedPrices)>>))
Position == Cached(10, <<Needs(GetUserPositions), Uses(GetCachedPrices)>>)

StakingPools == Cached(60, <<Uses(GetYieldFarmingPools)>>)
\* One item of such a list: a list cut short has it, or does not.
Found(list) == [list EXCEPT !.well = @ \cup {"none"}, !.ill = {"some", "none"}]
StakingPool == Cached(60, <<Needs(Found(GetYieldFarmingPools))>>)
StakingPositions == Checked(Cached(10, <<Lists(GetUserFarmingPositions),
                                         Uses(GetYieldFarmingPools)>>))
StakingPosition == Cached(10, <<Needs(GetUserFarmingPositions),
                                Uses(GetYieldFarmingPools)>>)

Proposals == Cached(30, <<Uses(GetGovernanceProposals)>>)
Proposal == Cached(30, <<Needs(Found(GetGovernanceProposals))>>)
VotingPower == Checked(Cached(10, <<Lists(GetUserStakingInfo)>>))

LiquidityPool == Cached(30, <<Uses(GetLiquidityPoolStats)>>)
LiquidityPosition == Checked(Cached(10, <<Lists(GetUserLPInfo),
                                          Uses(GetLiquidityPoolStats)>>))
LiquidityHistory == Cached(300, <<>>)

PlatformStats == Joined(Cached(60,
    <<Uses(GetAllMarkets), Uses(GetLiquidityPoolStats),
      Uses(GetGovernanceProposals), Uses(GetYieldFarmingPools),
      Uses(GetCurrentOraclePrices)>>))
MarketsStats == Cached(60, <<Uses(GetAllMarkets), Uses(GetCurrentOraclePrices)>>)
Leaderboard == Cached(300, <<>>)
Treasury == Cached(300, <<Uses(GetLiquidityPoolStats)>>)
Analytics == Joined(Cached(120, <<Uses(GetAllMarkets),
                                  Uses(GetLiquidityPoolStats)>>))

\* The order by assets under management compares BigInts with a BigInt, which
\* throws; the other orders do not.
SortLeaders == [well |-> {"some", "throw"}, ill |-> {"some", "throw"}]
Leaders == Cached(30, <<Uses(GetAllLeaders), Uses(GetLeaderStats),
                        Uses(SortLeaders)>>)
\* getUserPositions is taken from a module that does not export it.
NotExported == [well |-> {"throw"}, ill |-> {"throw"}]
Leader == Cached(30, <<Needs(GetLeader), Uses(GetLeaderStats),
                       Uses(NotExported)>>)
MyCopies == Cached(10, <<Uses(GetUserCopyRelationships), Uses(GetLeader),
                         Uses(GetLeaderStats)>>)
Discover == Cached(300, <<Uses(GetAllLeaders), Uses(GetLeaderStats)>>)
SocialStats == Cached(60, <<Uses(GetAllLeaders)>>)

PerpMarkets == Checked(Uncached(<<Uses(BlockStates)>>))
FundingRate == Checked(Uncached(<<Needs(GetBlockState)>>))
FundingHistory == Checked(Uncached(<<Uses(BlockStates)>>))
PerpPrice == Checked(Uncached(<<Needs(GetBlockState)>>))
PriceHistory == Uncached(<<>>)
PerpPositions == Checked(Uncached(<<>>))
PerpStats == Checked(Uncached(<<Uses(BlockStates)>>))

\* As index.js mounts them.  /positions/:address/history comes after
\* /positions/:address/:positionId, which takes every request for it.
Routes == [
    markets |-> Markets, market |-> Market,
    marketHistory |-> MarketHistory, marketStats |-> MarketStats,
    positions |-> Positions, position |-> Position,
    stakingPools |-> StakingPools, stakingPool |-> StakingPool,
    stakingPositions |-> StakingPositions, stakingPosition |-> StakingPosition,
    proposals |-> Proposals, proposal |-> Proposal, votingPower |-> VotingPower,
    liquidityPool |-> LiquidityPool, liquidityPosition |-> LiquidityPosition,
    liquidityHistory |-> LiquidityHistory,
    platformStats |-> PlatformStats, marketsStats |-> MarketsStats,
    leaderboard |-> Leaderboard, treasury |-> Treasury, analytics |-> Analytics,
    leaders |-> Leaders, leader |-> Leader, myCopies |-> MyCopies,
    discover |-> Discover, socialStats |-> SocialStats,
    perpMarkets |-> PerpMarkets, fundingRate |-> FundingRate,
    fundingHistory |-> FundingHistory, perpPrice |-> PerpPrice,
    priceHistory |-> PriceHistory, perpPositions |-> PerpPositions,
    perpStats |-> PerpStats]
=============================================================================
