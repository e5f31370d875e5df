----------------------------- MODULE MCListings -----------------------------
(* TLC instance of the list endpoints.                                     *)
EXTENDS Listings

AllEndpoints == {"issuers", "types", "credentials", "accounts", "invitations", "offers"}
=============================================================================
