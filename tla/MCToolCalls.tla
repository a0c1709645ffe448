----------------------------- MODULE MCToolCalls -----------------------------
(* Backends, endpoints, envelopes and calls for checking ToolCalls.        *)
EXTENDS ToolCalls

MCKind == [b \in Backends |-> IF b = "h" \/ b = "g" THEN "http_endpoint" ELSE "mcp_client"]
MCNames == {<<"crm">>, <<"docs">>, <<"docs", "v2">>, <<"CRM">>}
MCClean == [p \in {"orders.list", "orders_list", "crm", "add", "docs", "v2", "find"} |-> IF p = "orders.list" THEN "orders_list" ELSE p]
MCLower == [p \in {"crm", "CRM", "docs", "v2", "_unmapped"} |-> IF p = "CRM" THEN "crm" ELSE p]

NoFields == [properties |-> {}, required |-> {}]
Param(n, r) == [name |-> n, required |-> r]
MCBundle ==
    [tools |-> <<[id |-> "list", name |-> <<"orders.list">>, method |-> "GET", path |-> {Param("id", TRUE)},
                  query |-> {Param("page", FALSE)}, body |-> "none", fields |-> NoFields],
                 [id |-> "add", name |-> <<"crm", "add">>, method |-> "POST", path |-> {}, query |-> {},
                  body |-> "schema", fields |-> [properties |-> {"item", "note"}, required |-> {"item"}]]>>,
     skills |-> <<[name |-> "greet", prompt |-> "hello"], [name |-> "bare", prompt |-> ""]>>]

MCServerTools == {<<"find">>, <<"v2", "find">>}
MCCalls == [name : {<<"orders_list">>, <<"crm", "add">>}, args : {{}, {"id"}, {"id", "page"}, {"item"}, {"item", "note"}}]
           \cup [name : {<<"docs", "find">>, <<"docs", "v2", "find">>, <<"gone">>}, args : {{}}]
           \cup [name : {<<"Skill">>}, args : {{"greet"}, {"bare"}, {"other"}}]

MCVisitor == {"auth", "trace", "host"}
MCHeaderSets == {{}, {"auth"}}
Block(all, headers) == [all |-> all, headers |-> headers]
MCEnvelopes == {(<<"crm">> :> Block(TRUE, {"trace"})),
                (<<"CRM">> :> Block(FALSE, {"auth"})) @@ (<<"crm">> :> Block(TRUE, {})) @@ (<<"docs">> :> Block(TRUE, {"trace"}))}

Row(b, n, headers) == [name |-> n, kind |-> MCKind[b], headers |-> headers]
MCInitialRows == {[b \in Backends |-> CASE b = "h" -> Row(b, <<"crm">>, {"auth"}) [] b = "m" -> Row(b, <<"docs">>, {"auth"}) [] OTHER -> None]}
MCWirings == {[e \in {"list", "add"} |-> IF e = "list" THEN "h" ELSE x] : x \in {"h", None}}
MCAttachments == {[b \in Backends |-> IF b = "m" THEN "" ELSE None]}
MCOverrides == {[b \in Backends |-> {}], [b \in Backends |-> IF b \in {"h", "m"} THEN {"auth"} ELSE {}]}
=============================================================================
