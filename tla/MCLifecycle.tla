------------------------------ MODULE MCLifecycle ------------------------------
(* Files for no, one and two workers, with a url, a broken one and none.      *)
EXTENDS Lifecycle

Line(key, value) == <<key, "=", " ", value, "\n">>
MCCfg == {Line("work_num", n) \o Line("bindurl", u) :
            n \in {"0", "1", "2"}, u \in {"url", "broken"}}
         \cup {Line("bindurl", "url"), Line("work_num", "1")}
=============================================================================
