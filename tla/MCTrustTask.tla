---------------------------- MODULE MCTrustTask ----------------------------
(***************************************************************************)
(* Sets of documents for TrustTask: a sign-in redeemed twice with a choice *)
(* of account, one two wallets race for, and two claims of a reservation.  *)
(***************************************************************************)
EXTENDS TrustTask, TLC

CONSTANTS w1, w2, b1, b2

Symmetry == Permutations(Slots)

Doc(kind, by, says) == [kind |-> kind, by |-> by, says |-> says]

MCSignIn ==
    {Doc("claim", w1, "-"), Doc("prove", w1, "right"),
     Doc("respond", w1, "approve"),
     Doc("redeem", "starter", b1), Doc("redeem", "starter", None)}
MCRace ==
    {Doc("claim", w1, "-"), Doc("prove", w1, "right"),
     Doc("respond", w1, "approve"), Doc("cancel", "starter", "-"),
     Doc("redeem", "starter", None)}
MCWrong ==
    {Doc("claim", w1, "-"), Doc("claim", w2, "-"), Doc("prove", w1, "wrong"),
     Doc("prove", w2, "right"), Doc("respond", w2, "decline"),
     Doc("respond", w2, "invalid")}
MCReservation == {Doc("vta_claim", w1, "-"), Doc("vta_claim", w2, "-")}
MCTwoAccounts ==
    {Doc("claim", w1, "-"), Doc("prove", w1, "right"),
     Doc("respond", w1, "approve"),
     Doc("redeem", "starter", b1), Doc("redeem", "starter", b2)}

MCFlows == {MCSignIn, MCRace, MCWrong, MCReservation}
MCAccountFlows == {MCTwoAccounts}
=============================================================================
