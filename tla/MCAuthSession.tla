---------------------------- MODULE MCAuthSession ----------------------------
(* Small instances of AuthSession for TLC.                                  *)
EXTENDS AuthSession, TLC

\* Requests, tokens and users are interchangeable (safety runs only).
AuthSymmetry == Permutations(Requests) \cup Permutations(Tokens) \cup Permutations(Users)
=============================================================================
