----------------------------- MODULE Governance -----------------------------
(***************************************************************************)
(* The governance contract, contracts/governance.  RWP tokens are staked   *)
(* for a time of the user's choice, which gives them voting power.         *)
(* Proposals are voted on for a period that begins after a delay and are   *)
(* executed afterwards if they passed; nothing keeps a user from voting    *)
(* again.                                                                  *)
(***************************************************************************)
EXTENDS BlockTime, FiniteSets, Sequences, Functions

CONSTANTS
    Voters,             \* the accounts that stake and vote
    StakeAmounts,       \* the amounts a deploy can name
    LockPeriods,        \* the times tokens can be locked for
    Day,                \* in the unit of the block time
    VotingDelay, VotingPeriod,
    MinStake,           \* the voting power a proposer needs
    TotalSupply,
    MaxStaked,          \* bound: the tokens staked in all
    MaxProposals,       \* bound: proposals made
    MaxVotes            \* bound: the votes one proposal gets

ASSUME GovernanceNumbers ==
    /\ Day \in Nat /\ VotingDelay \in Nat /\ VotingPeriod \in Nat
    /\ MinStake \in Nat \ {0} /\ TotalSupply \in Nat
    /\ StakeAmounts \subseteq Nat /\ LockPeriods \subseteq Nat
    /\ IsFiniteSet(Voters)

VARIABLES
    staked,             \* staked[u]: the position of a voter
    staked_supply,
    proposals           \* the proposal with the id k is proposals[k + 1]

governanceVars == <<staked, staked_supply, proposals>>

StakedPosition == [staked_amount : Nat, stake_timestamp : Nat,
                   lock_period : Nat, voting_power : Nat]
Proposal == [votes_for : Nat, votes_against : Nat, start_time : Nat,
             end_time : Nat, executed : BOOLEAN, quorum_required : Nat]

GovernanceTypeOK ==
    /\ staked \in [Voters -> StakedPosition]
    /\ staked_supply \in Nat
    /\ proposals \in Seq(Proposal)

\* An account that never staked can do what one with nothing staked can: its
\* votes count nothing and it can take nothing out.
GovernanceInit ==
    /\ staked = [u \in Voters |-> [staked_amount |-> 0, stake_timestamp |-> 0,
                                   lock_period |-> 0, voting_power |-> 0]]
    /\ staked_supply = 0
    /\ proposals = <<>>

-----------------------------------------------------------------------------
\* In percent: the longer the lock the more power.
Multiplier(lock_period) ==
    CASE lock_period <= Day -> 100
      [] lock_period \in Day + 1 .. 7 * Day -> 125
      [] lock_period \in 7 * Day + 1 .. 30 * Day -> 150
      [] lock_period \in 30 * Day + 1 .. 90 * Day -> 200
      [] lock_period \in 90 * Day + 1 .. 180 * Day -> 250
      [] lock_period > 180 * Day -> 300

VotingPower(amount, lock_period) == (amount * Multiplier(lock_period)) \div 100

\* Staking more starts the lock of all that is staked anew, for the time named
\* last, which may be a shorter one.
Stake(u, amount, lock_period) ==
    LET total == staked[u].staked_amount + amount IN
    /\ amount # 0
    /\ staked_supply + amount <= MaxStaked
    /\ staked' = [staked EXCEPT ![u] =
                    [staked_amount |-> total, stake_timestamp |-> blocktime,
                     lock_period |-> lock_period,
                     voting_power |-> VotingPower(total, lock_period)]]
    /\ staked_supply' = staked_supply + amount
    /\ UNCHANGED proposals

Unstake(u, amount) ==
    LET rest == staked[u].staked_amount - amount IN
    /\ blocktime >= staked[u].stake_timestamp + staked[u].lock_period
    /\ rest >= 0
    /\ staked' = [staked EXCEPT
                    ![u].staked_amount = rest,
                    ![u].voting_power = VotingPower(rest, staked[u].lock_period)]
    /\ staked_supply' = staked_supply - amount
    /\ UNCHANGED proposals

CreateProposal(u) ==
    LET start == blocktime + VotingDelay IN
    /\ staked[u].voting_power >= MinStake
    /\ Len(proposals) < MaxProposals
    /\ proposals' = Append(proposals,
         [votes_for |-> 0, votes_against |-> 0, start_time |-> start,
          end_time |-> start + VotingPeriod, executed |-> FALSE,
          quorum_required |-> TotalSupply \div 10])
    /\ UNCHANGED <<staked, staked_supply>>

IsActive(p) == p.start_time <= blocktime /\ blocktime <= p.end_time

Vote(u, id, support) ==
    LET p == proposals[id]
        power == staked[u].voting_power
    IN /\ IsActive(p)
       /\ p.votes_for + p.votes_against + power <= MaxVotes
       /\ proposals' = [proposals EXCEPT ![id] =
             IF support THEN [p EXCEPT !.votes_for = @ + power]
             ELSE [p EXCEPT !.votes_against = @ + power]]
       /\ UNCHANGED <<staked, staked_supply>>

\* Mutant: the last moment of the period counts as its end.
VotingEndedEarly(p) == blocktime >= p.end_time

VotingEnded(p) == blocktime > p.end_time

HasPassed(p) ==
    /\ p.votes_for + p.votes_against >= p.quorum_required
    /\ p.votes_for > p.votes_against

ExecuteProposal(id) ==
    /\ VotingEnded(proposals[id])
    /\ ~ proposals[id].executed
    /\ HasPassed(proposals[id])
    /\ proposals' = [proposals EXCEPT ![id].executed = TRUE]
    /\ UNCHANGED <<staked, staked_supply>>

GovernanceNext ==
    \/ \E u \in Voters, amount \in StakeAmounts :
          \/ \E lock_period \in LockPeriods :
                Stake(u, amount, lock_period) /\ UNCHANGED blocktime
          \/ Unstake(u, amount) /\ UNCHANGED blocktime
    \/ \E u \in Voters : CreateProposal(u) /\ UNCHANGED blocktime
    \/ \E u \in Voters, id \in DOMAIN proposals, support \in BOOLEAN :
          Vote(u, id, support) /\ UNCHANGED blocktime
    \/ \E id \in DOMAIN proposals : ExecuteProposal(id) /\ UNCHANGED blocktime
    \/ Tick /\ UNCHANGED governanceVars

-----------------------------------------------------------------------------
\* The supply that counts as staked is what the voters have staked.
StakesAddUp ==
    SumFunction([u \in Voters |-> staked[u].staked_amount]) = staked_supply

\* A proposal that was executed has passed for good: the votes that carried it
\* reach the quorum and are the more ones, whoever votes when.
DecisionsStand ==
    \A id \in DOMAIN proposals :
        proposals[id].executed => HasPassed(proposals[id])
=============================================================================
