----------------------------- MODULE MCKeyStore -----------------------------
(***************************************************************************)
(* KeyStore for TLC: an empty key file, and one with an entry to skip and  *)
(* two entries for one key.                                                *)
(***************************************************************************)
EXTENDS KeyStore

Entry(id, key) == [id |-> id, key |-> key]

MCFiles ==
    {<< >>, <<Entry("alice", "k1"), Entry(NoString, "k2"), Entry("bob", "k1"), Entry("bob", NoString)>>}

MCHeaders ==
    {[apiKey |-> "k1", bearer |-> "k2"], [apiKey |-> NoString, bearer |-> "k2"],
     [apiKey |-> NoString, bearer |-> NoString]}
=============================================================================
