---------------------------- MODULE ProducerPay -----------------------------
(***************************************************************************)
(* What happens with each block, and the pay of producers                  *)
(* (producer_pay.cpp): inflation is shared by the blocks made and by the   *)
(* votes held over time.                                                   *)
(***************************************************************************)
EXTENDS NameAuction

CONSTANTS ScheduleInterval,  \* 120 slots: a minute
          pay_factor_precision,
          min_pervote_daily_pay,
          Year,
          ContinuousRate,    \* annual rate -> log1p of it, as a part of RateUnit
          RateUnit,
          Factors            \* of setinflation

VARIABLE pay                 \* the globals: the buckets, unpaid blocks, when what
                             \* was last done, inflation and the revision; the
                             \* supply of the token; the schedule proposed

NewPay(supply, rate, inflation_pay_factor, votepay_factor) ==
    [pervote_bucket |-> 0, perblock_bucket |-> 0, total_unpaid_blocks |-> 0, last_block_num |-> 0,
     last_pervote_bucket_fill |-> NoTime, last_producer_schedule_update |-> 0,
     last_producer_schedule_size |-> 0, last_name_close |-> 0, schedule |-> {}, revision |-> 0,
     rate |-> rate, inflation_pay_factor |-> inflation_pay_factor, votepay_factor |-> votepay_factor,
     supply |-> supply]

Activated == elect.thresh_activated_stake_time # NoTime

\* A block of producer, if that is registered, waits to be paid.
CountBlock(e, producer) ==
    IF producer \in DOMAIN e.producers
    THEN [e EXCEPT !.producers[producer].unpaid_blocks = @ + 1]
    ELSE e

\* The chain takes a proposed schedule or not (it may have one under way).
update_elected_producers(p, elected, accepted) ==
    LET size == Cardinality(elected)
    IN  IF size > 0 /\ size >= p.last_producer_schedule_size /\ accepted
        THEN [p EXCEPT !.last_producer_schedule_update = now,
                       !.last_producer_schedule_size = size, !.schedule = elected]
        ELSE [p EXCEPT !.last_producer_schedule_update = now]

ClosesName(p) ==
    /\ now - p.last_name_close > Day
    /\ MayClose(names, now)
    /\ now - elect.thresh_activated_stake_time > 14 * Day

\* Once for each block; until activation it only counts the block.
OnBlock(producer) ==
    LET counted == CountBlock(elect, producer)
        started == [pay EXCEPT !.last_block_num = now,
                               !.last_pervote_bucket_fill = IF @ = NoTime THEN now ELSE @,
                               !.total_unpaid_blocks = @ + (IF counted = elect THEN 0 ELSE 1)]
        due     == now - pay.last_producer_schedule_update > ScheduleInterval
        closes  == due /\ ClosesName(pay)
        w       == [World EXCEPT !.elect = counted,
                                 !.rex = IF closes
                                         THEN channel_namebid_to_rex(@, names.bids[Highest(names)].high_bid)
                                         ELSE @]
    IN  /\ pay.last_block_num < now
        /\ \/ /\ ~ Activated
              /\ pay' = [pay EXCEPT !.last_block_num = now]
              /\ UNCHANGED <<system, names>>
           \/ /\ Activated
              /\ \E elected \in SUBSET DOMAIN elect.producers, accepted \in BOOLEAN :
                     /\ MayBeElected(elect, Seats, elected)
                     /\ LET scheduled == IF due THEN update_elected_producers(started, elected, accepted)
                                         ELSE started
                        IN  pay' = IF closes THEN [scheduled EXCEPT !.last_name_close = now] ELSE scheduled
              /\ names' = IF closes THEN close_highest(names) ELSE names
              /\ Become(w)

-----------------------------------------------------------------------------
\* New tokens since the last time: a part for producers, and of that a part for
\* their blocks; the rest is saved.
Inflation(p, ct) ==
    LET elapsed   == ct - p.last_pervote_bucket_fill
        new       == IF elapsed > 0 /\ p.last_pervote_bucket_fill > NoTime
                     THEN (p.rate * p.supply * elapsed) \div (RateUnit * Year) ELSE 0
        producers == (new * pay_factor_precision) \div p.inflation_pay_factor
        blocks    == (producers * pay_factor_precision) \div p.votepay_factor
    IN  [new |-> new, savings |-> new - producers, per_block |-> blocks, per_vote |-> producers - blocks]

Filled(p, ct) ==
    LET new == Inflation(p, ct)
    IN  [p EXCEPT !.pervote_bucket = @ + new.per_vote, !.perblock_bucket = @ + new.per_block,
                  !.supply = @ + new.new,
                  !.last_pervote_bucket_fill = IF @ > NoTime /\ ct > @ THEN ct ELSE @]

Issued(c, new) ==
    [c EXCEPT ![saving_account] = @ + new.savings, ![bpay_account] = @ + new.per_block,
              ![vpay_account] = @ + new.per_vote]

PerBlockPay(p, producer) ==
    IF p.total_unpaid_blocks > 0
    THEN (p.perblock_bucket * producer.unpaid_blocks) \div p.total_unpaid_blocks
    ELSE 0

\* A part of the votes' bucket; too small a part is not paid.
PartOfVotes(p, ours, total) == IF total > 0 THEN (ours * p.pervote_bucket) \div total ELSE 0

AtLeastDaily(amount) == IF amount < min_pervote_daily_pay THEN 0 ELSE amount

\* Mutation: who comes back after the threshold does not take part again.
ClaimedForgotten(e, x, ct) ==
    LET producer == e.producers[x]
        row      == IF x \in DOMAIN e.producers2 THEN e.producers2[x] ELSE NewProducer2(ct)
        share    == ShareNow(row, ct, producer.total_votes)
    IN  [share |-> share, total |-> e.total_producer_votepay_share,
         elect |-> update_total_votepay_share(
                       [e EXCEPT !.producers[x] = [@ EXCEPT !.last_claim_time = ct, !.unpaid_blocks = 0],
                                 !.producers2 = Put(@, x, NewProducer2(ct))],
                       ct, - share, 0)]

\* The producer's shares are spent with the claim, and count anew from now; one
\* that did not take part in the sum since its threshold takes part again.
Claimed(e, x, ct) ==
    LET producer == e.producers[x]
        old      == x \notin DOMAIN e.producers2
        row      == IF old THEN NewProducer2(ct) ELSE e.producers2[x]
        after    == old \/ UpdatedAfterThreshold(producer, row)
        share    == ShareNow(row, ct, IF after THEN 0 ELSE producer.total_votes)
        grown    == update_total_votepay_share(e, ct, 0, 0)
    IN  [share |-> share, total |-> grown.total_producer_votepay_share,
         elect |-> update_total_votepay_share(
                       [e EXCEPT !.producers[x] = [@ EXCEPT !.last_claim_time = ct, !.unpaid_blocks = 0],
                                 !.producers2 = Put(@, x, NewProducer2(ct))],
                       ct, - share, IF after THEN producer.total_votes ELSE 0)]

ClaimRewards(x) ==
    LET producer == elect.producers[x]
        filled   == Filled(pay, now)
        claimed  == Claimed(elect, x, now)
        blocks   == PerBlockPay(filled, producer)
        shared   == PartOfVotes(filled, claimed.share, claimed.total)
        part     == IF pay.revision = 0
                    THEN PartOfVotes(filled, producer.total_votes, elect.total_producer_vote_weight)
                    ELSE IF CrossedThreshold(producer, now) THEN 0
                    ELSE IF shared > filled.pervote_bucket THEN filled.pervote_bucket
                    ELSE shared
        votes    == AtLeastDaily(part)
        issued   == [World EXCEPT !.core = Issued(@, Inflation(pay, now)), !.elect = claimed.elect]
    IN  /\ x \in DOMAIN elect.producers /\ producer.is_active
        /\ Activated
        /\ now - producer.last_claim_time > Day
        /\ pay' = [filled EXCEPT !.pervote_bucket = @ - votes, !.perblock_bucket = @ - blocks,
                                 !.total_unpaid_blocks = @ - producer.unpaid_blocks]
        /\ UNCHANGED names
        /\ Become(Transfer(Transfer(issued, bpay_account, x, blocks), vpay_account, x, votes))

\* By eosio.
UpdtRevision ==
    /\ pay.revision = 0
    /\ pay' = [pay EXCEPT !.revision = 1]
    /\ UNCHANGED <<system, names>>

SetInflation(annual_rate, inflation_pay_factor, votepay_factor) ==
    /\ inflation_pay_factor >= pay_factor_precision /\ votepay_factor >= pay_factor_precision
    /\ pay' = [pay EXCEPT !.rate = ContinuousRate[annual_rate],
                          !.inflation_pay_factor = inflation_pay_factor,
                          !.votepay_factor = votepay_factor]
    /\ UNCHANGED <<system, names>>

-----------------------------------------------------------------------------
PaySystemStep ==
    \/ UpdtRevision
    \/ \E rate \in DOMAIN ContinuousRate, f, g \in Factors : SetInflation(rate, f, g)

-----------------------------------------------------------------------------
UnpaidBlocks(e) == MapThenSumSet(LAMBDA p : e.producers[p].unpaid_blocks, DOMAIN e.producers)

\* Each bucket is what its account holds, and the blocks it is shared by are
\* those of the producers.
BucketsBacked ==
    /\ core[bpay_account] = pay.perblock_bucket /\ core[vpay_account] = pay.pervote_bucket
    /\ pay.total_unpaid_blocks = UnpaidBlocks(elect)

\* Producers whose votes count for the shares: not those that have not claimed
\* for three days and have been updated since.
Sharing(e) ==
    {p \in DOMAIN e.producers2 : ~ UpdatedAfterThreshold(e.producers[p], e.producers2[p])}

TotalShareNow(e, ct) == update_total_votepay_share(e, ct, 0, 0).total_producer_votepay_share

SharesNow(e, ct) ==
    MapThenSumSet(LAMBDA p : ShareNow(e.producers2[p], ct, e.producers[p].total_votes), Sharing(e))

RateOfSharing(e) == MapThenSumSet(LAMBDA p : e.producers[p].total_votes, Sharing(e))

\* The total of the shares, kept by adding a rate that votes, claims and
\* thresholds change, is at least the sum of what the producers may claim, so
\* that their parts of the bucket are not more than all of it.
SharesCovered ==
    /\ TotalShareNow(elect, now) >= SharesNow(elect, now)
    /\ elect.total_vpay_share_change_rate >= RateOfSharing(elect)

\* No claim, whatever its rounding and whoever has claimed, voted or stopped
\* claiming before, takes a token that another producer has been promised.
PayBacked == BucketsBacked /\ SharesCovered

\* It is that sum, unless there are producers of the first release: nobody's
\* share is diluted by votes of producers that have stopped claiming.
SharesExact ==
    /\ TotalShareNow(elect, now) = SharesNow(elect, now)
    /\ elect.total_vpay_share_change_rate = RateOfSharing(elect)
=============================================================================
