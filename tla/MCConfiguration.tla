-------------------------- MODULE MCConfiguration --------------------------
EXTENDS Configuration

CONSTANTS e1, e2

Plain == [via |-> "New", file |-> "read", kind |-> "redis", custom |-> FALSE, url |-> "redis",
          env |-> "", tls |-> FALSE, queues |-> <<>>, concurrency |-> 2, timeout |-> 4]

\* Every way to ask for a broker ...
Options == {[Plain EXCEPT !.kind = k, !.url = u, !.tls = t] : k \in {"redis", "nats"},
              u \in {"", "redis", "rediss", "unix", "other"}, t \in BOOLEAN}
           \cup {[Plain EXCEPT !.kind = k, !.custom = c] : k \in {"", "redis"}, c \in BOOLEAN}
Files == {[Plain EXCEPT !.via = "QuickStart", !.kind = k, !.url = u, !.env = v, !.file = f] :
              k \in {"", "redis", "nats"}, u \in {"", "redis"}, v \in {"", "redis"},
              f \in {"read", "missing"}}

\* ... and, over one that works, of queues and numbers at the limits.
Entry(f, n, w) == [form |-> f, name |-> n, weight |-> w]
Lists == {<<Entry(f, "high", v), Entry(f, "low", w)>> :
            f \in {"option"}, v \in {-1, 0, 2}, w \in {1}}
         \cup {<<Entry("option", "high", 1), Entry("option", "low", 1), Entry("option", "high", 2)>>}
YAMLLists == {<<Entry(f, "high", v), Entry("array", "low", 1)>> :
                f \in {"array", "map"}, v \in {-1, 0, 2, NoWeight}}
Limits == {[Plain EXCEPT !.via = v, !.concurrency = c, !.timeout = t] :
             v \in {"New", "QuickStart", "NewTestEngine"}, c \in {-1, 0, 3, 5}, t \in {-2, 0, 2, 12}}
          \cup {[Plain EXCEPT !.timeout = t] : t \in {1, 3}}

AllRequests == Options \cup Files \cup Limits
  \cup {[Plain EXCEPT !.queues = l] : l \in Lists}
  \cup {[Plain EXCEPT !.via = "QuickStart", !.queues = l] : l \in YAMLLists}
=============================================================================
