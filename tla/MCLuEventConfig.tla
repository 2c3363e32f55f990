--------------------------- MODULE MCLuEventConfig ---------------------------
(* Small instances of LuEventConfig for TLC: one thing asked for at a time.  *)
EXTENDS LuEventConfig

SomeConfigs ==
  {[DefaultConfig EXCEPT !.flags = {f}] : f \in ConfigFlags}
    \cup {[DefaultConfig EXCEPT !.required_features = {f}] : f \in {"ET", "FDS"}}
    \cup {[DefaultConfig EXCEPT !.max_dispatch_callbacks = n] : n \in {-5, 0, 3}}
    \cup {[DefaultConfig EXCEPT !.max_dispatch_interval = 7],
          [DefaultConfig EXCEPT !.avoids = TRUE]}

SomeEnvironments == {{}} \cup {{v} : v \in Variables}
                      \cup {Variables \ {"EVENT_NOEPOLL"}}
==============================================================================
