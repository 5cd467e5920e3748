------------------------------ MODULE MCCrawler ------------------------------
EXTENDS Crawler

CONSTANTS loop, panel
==============================================================================
