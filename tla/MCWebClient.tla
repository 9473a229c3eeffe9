----------------------------- MODULE MCWebClient -----------------------------
(* WebClient for TLC: two valid names and one that is not, one address,   *)
(* one value for each kind of log filter, three settings, five pages of    *)
(* logs behind three links, days of three hours one hour ahead of UTC,     *)
(* bounds that leave both, one or none of the default dates where they     *)
(* are, and four samples of which the list keeps three.                    *)
EXTENDS WebClient

MCLogValues == [level |-> {"warn"}, status_code |-> {"4xx"}]
MCBounds == {<<2, 7>>, <<7, 7>>, <<5, 8>>}
=============================================================================
