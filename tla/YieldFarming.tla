---------------------------- MODULE YieldFarming ----------------------------
(***************************************************************************)
(* A pool of the yield farming contract, contracts/yield-farming.  Whoever *)
(* stakes in it earns a part of a stream of rewards, by an accumulator of  *)
(* the reward per token that every deploy brings up to date.  The end time *)
(* of a pool is stored and never read.  Pools share nothing but the total  *)
(* of the rewards distributed.                                             *)
(***************************************************************************)
EXTENDS BlockTime, FiniteSets, Functions, Storage

CONSTANTS
    Farmers,            \* the accounts that stake
    FarmAdmin,
    FarmAmounts,        \* the amounts a deploy can name
    RewardRates,        \* the rewards per second a pool can be created with
    StartTimes,         \* the times it can start at
    Precision,          \* what the accumulator is multiplied by
    MaxFarmed,          \* bound: the tokens staked in all
    MaxChanges,         \* bound: how often someone stakes or unstakes
    MaxCreations        \* bound: how often the pool is created

ASSUME FarmNumbers ==
    /\ Precision \in Nat \ {0}
    /\ FarmAmounts \subseteq Nat
    /\ RewardRates \subseteq Nat
    /\ StartTimes \subseteq Nat
    /\ IsFiniteSet(Farmers)

VARIABLES
    farm,               \* the pool
    creations,          \* how often create_pool ran: there is no pool at 0
    position,           \* the position of each farmer who ever staked
    total_rewards_distributed,
    emitted,            \* history: the rewards for the seconds someone had a stake
    received,           \* history: received[u], the rewards paid to u
    changes             \* history: how often someone staked or unstaked

farmVars == <<farm, creations, position, total_rewards_distributed, emitted,
              received, changes>>

FarmingPool == [total_staked : Nat, reward_per_second : Nat,
                last_reward_time : Nat, accumulated_reward_per_share : Nat]
FarmingPosition ==
    [staked_amount : Nat, reward_debt : Nat, pending_rewards : Nat]

FarmTypeOK ==
    /\ farm \in FarmingPool
    /\ creations \in Nat
    /\ IsMap(position, Farmers, FarmingPosition)
    /\ total_rewards_distributed \in Nat
    /\ emitted \in Nat
    /\ received \in [Farmers -> Nat]
    /\ changes \in Nat

NewFarm(reward_per_second, start_time) ==
    [total_staked |-> 0, reward_per_second |-> reward_per_second,
     last_reward_time |-> start_time, accumulated_reward_per_share |-> 0]

FarmInit ==
    /\ farm = NewFarm(0, 0)
    /\ creations = 0
    /\ position = NoKeys
    /\ total_rewards_distributed = 0
    /\ emitted = 0
    /\ received = [u \in Farmers |-> 0]
    /\ changes = 0

-----------------------------------------------------------------------------
\* A pool created again takes the place of the old one, under its farmers.
CreatePool(caller, reward_per_second, start_time) ==
    /\ caller = FarmAdmin
    /\ creations < MaxCreations
    /\ farm' = NewFarm(reward_per_second, start_time)
    /\ creations' = creations + 1
    /\ UNCHANGED <<position, total_rewards_distributed, emitted, received,
                   changes>>

\* The rewards since the last update, if there is anyone to have them.
Emission ==
    IF blocktime <= farm.last_reward_time \/ farm.total_staked = 0 THEN 0
    ELSE (blocktime - farm.last_reward_time) * farm.reward_per_second

RewardPerShare ==
    IF farm.total_staked = 0 THEN 0
    ELSE (Emission * Precision) \div farm.total_staked

\* Mutant: time in which nobody had a stake is made up for later.
UpdatedWhenStaked ==
    IF blocktime <= farm.last_reward_time \/ farm.total_staked = 0 THEN farm
    ELSE [farm EXCEPT !.accumulated_reward_per_share = @ + RewardPerShare,
                      !.last_reward_time = blocktime]

\* update_pool
Updated ==
    IF blocktime <= farm.last_reward_time THEN farm
    ELSE [farm EXCEPT !.accumulated_reward_per_share = @ + RewardPerShare,
                      !.last_reward_time = blocktime]

ShareOf(pool_now, amount) ==
    (amount * pool_now.accumulated_reward_per_share) \div Precision

\* calculate_pending_rewards: what a position earned since its last change.
Earned(pool_now, p) ==
    IF ShareOf(pool_now, p.staked_amount) > p.reward_debt
    THEN ShareOf(pool_now, p.staked_amount) - p.reward_debt ELSE 0

\* Mutant: what was earned before is not kept.
SettledAnew(pool_now, p, amount) ==
    [staked_amount |-> amount,
     reward_debt |-> ShareOf(pool_now, amount),
     pending_rewards |-> Earned(pool_now, p)]

\* A position that has an amount staked from now on.
Settled(pool_now, p, amount) ==
    [staked_amount |-> amount,
     reward_debt |-> ShareOf(pool_now, amount),
     pending_rewards |-> p.pending_rewards + Earned(pool_now, p)]

NewPosition == [staked_amount |-> 0, reward_debt |-> 0, pending_rewards |-> 0]

Held(u) == IF HasKey(position, u) THEN position[u] ELSE NewPosition

StakeInPool(u, amount) ==
    /\ amount # 0
    /\ creations # 0
    /\ Updated.total_staked + amount <= MaxFarmed
    /\ farm' = [Updated EXCEPT !.total_staked = @ + amount]
    /\ position' = PutKey(position, u,
                      Settled(Updated, Held(u), Held(u).staked_amount + amount))
    /\ changes < MaxChanges /\ changes' = changes + 1
    /\ UNCHANGED <<creations, total_rewards_distributed, emitted, received>>

\* A pool that was created again may not have the amount: then this panics.
UnstakeFromPool(u, amount) ==
    /\ creations # 0
    /\ HasKey(position, u)
    /\ amount <= position[u].staked_amount
    /\ amount <= farm.total_staked
    /\ farm' = [Updated EXCEPT !.total_staked = @ - amount]
    /\ position' = PutKey(position, u,
                      Settled(Updated, Held(u), Held(u).staked_amount - amount))
    /\ changes < MaxChanges /\ changes' = changes + 1
    /\ UNCHANGED <<creations, total_rewards_distributed, emitted, received>>

Harvest(u) ==
    LET after == Settled(Updated, Held(u), Held(u).staked_amount)
        rewards == after.pending_rewards
    IN /\ creations # 0
       /\ HasKey(position, u)
       /\ rewards # 0
       /\ farm' = Updated
       /\ position' = PutKey(position, u, [after EXCEPT !.pending_rewards = 0])
       /\ total_rewards_distributed' = total_rewards_distributed + rewards
       /\ received' = [received EXCEPT ![u] = @ + rewards]
       /\ UNCHANGED <<creations, emitted, changes>>

\* A second passes; the pool has a reward for it if it has started and someone
\* has a stake.
FarmTick ==
    /\ Tick
    /\ emitted' = IF farm.last_reward_time <= blocktime /\ farm.total_staked # 0
                  THEN emitted + farm.reward_per_second ELSE emitted
    /\ UNCHANGED <<farm, creations, position, total_rewards_distributed,
                   received, changes>>

FarmNext ==
    \/ \E caller \in Farmers \cup {FarmAdmin}, rate \in RewardRates, start \in StartTimes :
          CreatePool(caller, rate, start) /\ UNCHANGED blocktime
    \/ \E u \in Farmers, amount \in FarmAmounts :
          \/ StakeInPool(u, amount) /\ UNCHANGED blocktime
          \/ UnstakeFromPool(u, amount) /\ UNCHANGED blocktime
    \/ \E u \in Farmers : Harvest(u) /\ UNCHANGED blocktime
    \/ FarmTick

-----------------------------------------------------------------------------
\* While the pool is the first, it counts what its farmers have staked.
FarmAddsUp ==
    creations <= 1 =>
        SumFunction([u \in Farmers |-> Held(u).staked_amount]) = farm.total_staked

\* What a farmer has been paid and could be paid now.
Owed(u) == Held(u).pending_rewards + Earned(farm, Held(u))

\* The rewards that farmers were paid and are owed were there to be had: no
\* order of stakes and harvests earns more than the pool had for the time in
\* which anything was staked, but for what is rounded up when a debt is rounded
\* down, less than one for each time a stake changes.
RewardsBacked ==
    creations <= 1 =>
        total_rewards_distributed + SumFunction([u \in Farmers |-> Owed(u)])
            <= emitted + changes

\* Nothing a farmer or another one does takes away what he earned, unless the
\* pool is replaced.
RewardsNeverLost ==
    [][creations' = creations =>
          \A u \in Farmers : received[u] + Owed(u) <= received'[u] + Owed(u)']_farmVars
=============================================================================
