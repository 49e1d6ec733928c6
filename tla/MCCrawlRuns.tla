----------------------------- MODULE MCCrawlRuns -----------------------------
(* Small instances of CrawlRuns for TLC. *)
EXTENDS CrawlRuns, TLC

CONSTANTS seed, offers, p1, p2, i1, i2, i3

=============================================================================
