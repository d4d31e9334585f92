---------------------------- MODULE MCRateLimiter ----------------------------
EXTENDS RateLimiter, TLC

\* Requests differ in nothing but their name.
Interchangeable == Permutations(Requests)
=============================================================================
