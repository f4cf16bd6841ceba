---------------------------- MODULE MCMarketFeed ----------------------------
EXTENDS MarketFeed

CONSTANTS c1, s1, s2, l1
=============================================================================
