---------------------- MODULE MCRecommendationProfiles ----------------------
(* Instance of RecommendationProfiles for TLC: devices that import anonymous *)
(* profiles, reset, hide and follow, and repeat what was not answered.      *)
EXTENDS RecommendationProfiles

CONSTANTS r1, r2, r3, x, y, read, liked, untagged

Plain(id, kind, at) ==
  [id |-> id, kind |-> kind, at |-> at, tag |-> x, events |-> {}, profile |-> NewProfile]

Guest ==
  [NewProfile EXCEPT !.followed = {x}, !.hidden = {y},
     !.events = {[signal |-> read, at |-> 0], [signal |-> liked, at |-> 1],
                [signal |-> untagged, at |-> 0]}]

Import(id) == [Plain(id, "merge", 0) EXCEPT !.profile = Guest]
Activity == [Plain("activity", "record", 2) EXCEPT
               !.events = {[signal |-> liked, at |-> 1], [signal |-> read, at |-> 2]}]
Unhide == [Plain("unhide", "unhide", 2) EXCEPT !.tag = y]

\* r2 sends the import of r1 again, and another one; r3 sends its unfollowing again.
Batches ==
  (r1 :> <<Import("import"), Plain("unfollow", "unfollow", 1), Unhide,
           Plain("off", "disable", 1)>>) @@
  (r2 :> <<Import("import"), Plain("reset", "reset", 1), Plain("hide", "hide", 2),
           Import("import2"), Activity>>) @@
  (r3 :> <<Plain("reset2", "reset", 2), Plain("on", "enable", 2),
           Plain("unfollow", "unfollow", 1), Plain("follow", "follow", 3)>>)

AllIds == UNION {{m.id : m \in ToSet(Batches[r])} : r \in Requests}
=============================================================================
