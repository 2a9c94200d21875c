------------------------------ MODULE MCScreen ------------------------------
(* An instance of Screen for TLC: a terminal of three rows and two columns, *)
(* so that a frame of one row is clipped and one of two is not.             *)
EXTENDS Screen, TLC

MCWire ==
  [kind : {"line"}, grid : {Global}, row : {0}, col : {0}, span : {1, 2}, value : {0}]
    \cup [kind : {"line"}, grid : {Win}, row : {0}, col : {0}, span : {1}, value : {0}]
    \cup [kind : {"resize"}, grid : {Win}, w : {1}, h : {2}]
    \cup [kind : {"resize"}, grid : {Global}, w : {2}, h : {2}]
    \cup [kind : {"scroll"}, grid : {Global}, top : {0}, bot : {2}, by : {1, -1}]
    \cup [kind : {"clear"}, grid : Grids]
    \cup [kind : {"goto"}, grid : Grids, row : {0}, col : {0}]
    \cup [kind : {"pos"}, row : {0}]
    \cup [kind : {"hide", "close", "destroy"}]
    \cup [kind : {"mode"}, mode : {"normal"}]
    \cup [kind : {"viewport"}, top : {1}]
    \cup [kind : {"cmdline_show"}, value : {0}]
    \cup [kind : {"cmdline_hide"}]
=============================================================================
