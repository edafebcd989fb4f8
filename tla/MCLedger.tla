------------------------------ MODULE MCLedger ------------------------------
(***************************************************************************)
(* Ledger for TLC: three accounts, one asset with two issues, and a few    *)
(* records of every other kind.                                            *)
(***************************************************************************)
EXTENDS Ledger

CONSTANTS alice, bob, carol, asset, issueA, issueB, transferA, transferB, shareA, shareB,
          grantAB, grantRest, grantBA, grantBC, grantBCToo, grantB, swapAB,
          blockTransfer, blockReturn, d1, d2, d3, digital

MCDigest == {d1, d2}

MCBlockData ==
    (d1 :> [owner |-> alice, payments |-> "p1"]) @@
    (d2 :> [owner |-> bob,   payments |-> "p2"]) @@
    (d3 :> [owner |-> carol, payments |-> "p5"])

MCTxData ==
    (asset     :> [type |-> "asset", asset |-> digital]) @@
    (issueA    :> [type |-> "issue", asset |-> digital, owner |-> alice]) @@
    (issueB    :> [type |-> "issue", asset |-> digital, owner |-> bob]) @@
    (transferA :> [type |-> "transfer", link |-> issueA, owner |-> bob]) @@
    (transferB :> [type |-> "transfer", link |-> transferA, owner |-> alice]) @@
    (shareA    :> [type |-> "share", link |-> issueA, quantity |-> 2]) @@
    (shareB    :> [type |-> "share", link |-> issueB, quantity |-> 1]) @@
    (grantAB   :> [type |-> "grant", share |-> issueA, quantity |-> 1,
                   owner |-> alice, recipient |-> bob]) @@
    (grantRest :> [type |-> "grant", share |-> issueA, quantity |-> 1,
                   owner |-> alice, recipient |-> bob]) @@
    (grantBA   :> [type |-> "grant", share |-> issueA, quantity |-> 1,
                   owner |-> bob, recipient |-> alice]) @@
    (grantBC   :> [type |-> "grant", share |-> issueA, quantity |-> 1,
                   owner |-> bob, recipient |-> carol]) @@
    (grantBCToo :> [type |-> "grant", share |-> issueA, quantity |-> 1,
                    owner |-> bob, recipient |-> carol]) @@
    (grantB    :> [type |-> "grant", share |-> issueB, quantity |-> 1,
                   owner |-> bob, recipient |-> alice]) @@
    (swapAB    :> [type |-> "swap", shareOne |-> issueA, quantityOne |-> 1,
                   ownerOne |-> alice, shareTwo |-> issueB, quantityTwo |-> 1,
                   ownerTwo |-> bob]) @@
    (blockTransfer :> [type |-> "blockTransfer", link |-> <<2, d1>>,
                       owner |-> bob, payments |-> "p3"]) @@
    (blockReturn :> [type |-> "blockTransfer", link |-> blockTransfer,
                     owner |-> alice, payments |-> "p4"])
=============================================================================
