---------------------------- MODULE NameAuction -----------------------------
(***************************************************************************)
(* Short account names are auctioned (name_bidding.cpp); onblock closes an *)
(* auction, and the highest bidder then creates the account (newaccount of *)
(* eosio.system.cpp).  Who is outbid gets a refund, by a transaction the   *)
(* chain runs later or by asking for it.                                   *)
(***************************************************************************)
EXTENDS SystemContract

CONSTANTS Names,             \* that are no accounts at first
          Suffix,            \* name -> its suffix: itself if it has no dot
          Free,              \* those of twelve characters without a dot
          Bidders, Creators,
          Bids               \* name -> what may be bid for it

VARIABLE names               \* bids, bid_refunds, the accounts, and the
                             \* transactions bidrefund that wait to run

NoNames == [bids |-> EmptyTable, bid_refunds |-> EmptyTable, accounts |-> Users, paybacks |-> {}]

Refundable(n, name, bidder) ==
    IF <<name, bidder>> \in DOMAIN n.bid_refunds THEN n.bid_refunds[<<name, bidder>>] ELSE 0

\* Mutation: a second refund replaces the first.
outbid_once(n, name) ==
    LET current == n.bids[name]
        who     == <<name, current.high_bidder>>
    IN  [n EXCEPT !.bid_refunds = Put(@, who, current.high_bid), !.paybacks = @ \cup {who}]

\* Mutation: the transaction is cancelled after it is sent.
outbid_cancelled(n, name) ==
    LET current == n.bids[name]
        who     == <<name, current.high_bidder>>
    IN  [n EXCEPT !.bid_refunds = Put(@, who, current.high_bid + Refundable(n, name, current.high_bidder)),
                  !.paybacks = @ \ {who}]

\* The highest bidder gets its bid back, besides what it has not collected yet.
outbid(n, name) ==
    LET current == n.bids[name]
        who     == <<name, current.high_bidder>>
    IN  [n EXCEPT !.bid_refunds = Put(@, who, current.high_bid + Refundable(n, name, current.high_bidder)),
                  !.paybacks = @ \cup {who}]

BidName(bidder, name, bid) ==
    LET before == IF name \in DOMAIN names.bids THEN outbid(names, name) ELSE names
        row    == [high_bidder |-> bidder, high_bid |-> bid, last_bid_time |-> now]
    IN  /\ name \in Names \ (Free \cup names.accounts)
        /\ Suffix[name] = name
        /\ bid > 0
        /\ name \in DOMAIN names.bids =>
               /\ names.bids[name].high_bid > 0
               /\ bid - names.bids[name].high_bid > names.bids[name].high_bid \div 10
               /\ names.bids[name].high_bidder # bidder
        /\ names' = [before EXCEPT !.bids = Put(@, name, row)]
        /\ Become(Transfer(World, bidder, names_account, bid))

\* By anybody.
BidRefund(name, bidder) ==
    /\ <<name, bidder>> \in DOMAIN names.bid_refunds
    /\ names' = [names EXCEPT !.bid_refunds = Erase(@, <<name, bidder>>)]
    /\ Become(Transfer(World, names_account, bidder, names.bid_refunds[<<name, bidder>>]))

\* Mutation: the refund stays.
RunPaybackAgain(name, bidder) ==
    /\ <<name, bidder>> \in names.paybacks
    /\ names' = [names EXCEPT !.paybacks = @ \ {<<name, bidder>>}]
    /\ Become(Transfer(World, names_account, bidder, Refundable(names, name, bidder)))

\* The chain runs a scheduled bidrefund, which fails if there is none any more.
RunPayback(name, bidder) ==
    LET gone == [names EXCEPT !.paybacks = @ \ {<<name, bidder>>}]
    IN  /\ <<name, bidder>> \in names.paybacks
        /\ names' = [gone EXCEPT !.bid_refunds = Erase(@, <<name, bidder>>)]
        /\ Become(Transfer(World, names_account, bidder, Refundable(names, name, bidder)))

\* An account's creator pays for a short name by auction; eosio creates any, and
\* leaves the auction as it is.
NewAccount(creator, name) ==
    LET won == /\ name \in DOMAIN names.bids
               /\ names.bids[name].high_bidder = creator
               /\ names.bids[name].high_bid < 0
        created == [names EXCEPT !.accounts = @ \cup {name}]
    IN  /\ creator \in names.accounts \cup {system_account} /\ name \in Names \ names.accounts
        /\ \/ (creator = system_account \/ name \in Free) /\ names' = created
           \/ /\ name \notin Free /\ Suffix[name] = name /\ won
              /\ names' = [created EXCEPT !.bids = Erase(@, name)]
           \/ name \notin Free /\ Suffix[name] # name /\ creator = Suffix[name] /\ names' = created
        /\ Become([World EXCEPT !.bw.userres = Put(@, name, NoResources),
                                !.bw.limits = Put(@, name, NoResources)])

-----------------------------------------------------------------------------
(* onblock's part: the auction with the highest bid closes, if that bid is *)
(* a day old.                                                              *)

Open(n) == {name \in DOMAIN n.bids : n.bids[name].high_bid > 0}

\* Of equal bids, the index has the lower name first.
Highest(n) ==
    CHOOSE name \in Open(n) : \A other \in Open(n) \ {name} :
        \/ n.bids[name].high_bid > n.bids[other].high_bid
        \/ n.bids[name].high_bid = n.bids[other].high_bid /\ NameValue[name] < NameValue[other]

MayClose(n, ct) == Open(n) # {} /\ ct - n.bids[Highest(n)].last_bid_time > Day

close_highest(n) == [n EXCEPT !.bids[Highest(n)].high_bid = - @]

-----------------------------------------------------------------------------
NameStep ==
    \/ \E x \in Bidders, name \in Names : (\E bid \in Bids[name] : BidName(x, name, bid))
                                        \/ BidRefund(name, x)
    \/ \E creator \in Creators, name \in Names : NewAccount(creator, name)

Payback == \E x \in Bidders, name \in Names : RunPayback(name, x)

-----------------------------------------------------------------------------
Refunds(n, x) == {k \in DOMAIN n.bid_refunds : k[2] = x}
BidsOf(n, x)  == {name \in DOMAIN n.bids : n.bids[name].high_bidder = x}

\* What a bid has taken from its bidder; that of a closed auction is negative.
Worth(n) == [name \in DOMAIN n.bids |-> IF n.bids[name].high_bid < 0 THEN - n.bids[name].high_bid
                                        ELSE n.bids[name].high_bid]

\* What x has, has bid, or has paid for a name it may still claim.
Holding(n, c, x) ==
    c[x] + TotalOf(n.bid_refunds, Refunds(n, x)) + TotalOf(Worth(n), BidsOf(n, x))

\* What x has, but for the prices of the names it has claimed in this step.
BidderWhole(x) ==
    LET claimed == {name \in BidsOf(names, x) : name \notin DOMAIN names'.bids}
    IN  Holding(names', core', x) =
            Holding(names, core, x) + TotalOf([name \in claimed |-> names.bids[name].high_bid], claimed)

\* Being outbid costs a bidder nothing, however often, on however many names, and
\* whether it asks for its refund or the chain pays it: of all that happens in
\* auctions only creating the account it has won takes tokens away for good.
BiddersWhole == [][\A x \in Bidders : BidderWhole(x)]_names

\* eosio.names can pay every refund and every bid that may become one, and what
\* it has promised to the resource exchange.
NamesBacked ==
    core[names_account] >= TotalOf([name \in Open(names) |-> names.bids[name].high_bid], Open(names))
                             + TotalOf(names.bid_refunds, DOMAIN names.bid_refunds)
                             + rex.pool.namebid_proceeds

\* Who is outbid is paid back in the end, by the transaction that outbidding
\* schedules, though it has asked for the refund of an earlier bid itself.
OutbidPaid ==
    \A x \in Bidders, name \in {n \in Names \ Free : Suffix[n] = n} :
        <<name, x>> \in DOMAIN names.bid_refunds ~> <<name, x>> \notin DOMAIN names.bid_refunds
=============================================================================
