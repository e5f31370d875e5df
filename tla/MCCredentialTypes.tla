-------------------------- MODULE MCCredentialTypes --------------------------
(* TLC instance of the credential-type catalogue.                          *)
EXTENDS CredentialTypes, TLC

Symmetric == Permutations(Edits) \union Permutations(OfferCalls)
=============================================================================
