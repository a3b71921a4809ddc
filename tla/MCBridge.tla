------------------------------ MODULE MCBridge ------------------------------
(* Grants and calls for TLC: calls that fit their tools, each of them with    *)
(* one slip, and the grants they are made under.                              *)
EXTENDS Bridge

(* Calls that fit their tools, and these with one slip.                       *)
Called == {"list_issues", "create_issue", "api_read", "api_write", "model_invoke"}
ListCall ==
    [tool |-> <<"github", "list_issues">>, connection |-> "absent", repository |-> "a/b",
     method |-> "none", surface |-> "none", path |-> FALSE, body |-> FALSE,
     request_id |-> "absent", flaw |-> "none"]
CatalogCall == [ListCall EXCEPT !.tool = <<"monica", "list_connections">>, !.repository = "absent"]
CreateCall == [ListCall EXCEPT !.tool = <<"gitlab", "create_issue">>, !.connection = "own",
                       !.request_id = "uuid"]
ReadCall ==
    [CatalogCall EXCEPT !.tool = <<"github", "api_read">>, !.method = "GET", !.surface = "rest",
                    !.path = TRUE]
WriteCall ==
    [ReadCall EXCEPT !.tool = <<"api_key", "api_write">>, !.method = "PUT", !.body = TRUE,
                 !.request_id = "uuid"]
QueryCall ==
    [WriteCall EXCEPT !.tool = <<"github", "api_write">>, !.method = "POST", !.surface = "graphql",
                  !.path = FALSE]
Slips(c) ==
    {[c EXCEPT !.tool = <<p, c.tool[2]>>] : p \in Providers}
    \cup {[c EXCEPT !.tool = <<c.tool[1], o>>] : o \in Called}
    \cup {[c EXCEPT !.connection = x] : x \in {"absent", "other"}}
    \cup {[c EXCEPT !.repository = x] : x \in {"absent", "group/a/b", "a/c"}}
    \cup {[c EXCEPT !.method = x] : x \in {"get", "POST", "TRACE"}}
    \cup {[c EXCEPT !.surface = x] : x \in {"none", "graphql"}}
    \cup {[c EXCEPT !.request_id = x] : x \in {"absent", "uuid", "text"}}
    \cup {[c EXCEPT !.path = ~ @], [c EXCEPT !.body = ~ @]}
Calls ==
    {CatalogCall, [ListCall EXCEPT !.repository = "*"], [ListCall EXCEPT !.flaw = "size"]}
    \cup {[CreateCall EXCEPT !.flaw = x] : x \in {"size", "unlisted"}}
    \cup {[c EXCEPT !.flaw = x] : c \in {ReadCall, WriteCall},
                                  x \in {"unlisted", "path", "headers", "encoding"}}
    \cup UNION {Slips(c) : c \in {ListCall, CreateCall, ReadCall, WriteCall, QueryCall}}

(* A read and a change, with and without a body.                              *)
BodyCalls == {[c EXCEPT !.body = b] : c \in {ReadCall, WriteCall}, b \in BOOLEAN}

(* Grants for issues of one and of two repositories, and for whole APIs.      *)
IssueGrants ==
    {[provider |-> p, operations |-> {"list_issues", "get_issue", "create_issue"},
      repositories |-> IF p = "github" THEN {"a/b"} ELSE {"a/b", "group/a/b"},
      approval |-> "write"] : p \in {"github", "gitlab"}}
ApiGrants ==
    {[provider |-> p, operations |-> {"api_read", "api_write"}, repositories |-> {"*"},
      approval |-> IF p = "github" THEN "all" ELSE "off"] : p \in {"github", "api_key"}}
ModelGrants ==
    {[provider |-> "api_key", operations |-> {"model_list", "model_invoke"},
      repositories |-> {"*"}, approval |-> "off"]}
AllGrants == IssueGrants \cup ApiGrants \cup ModelGrants
=============================================================================
