---------------------------- MODULE MCHttpServer ----------------------------
(* Two connections, two images of one and a half and of one sector, and the   *)
(* requests of a browser and of an upload page.                               *)
EXTENDS HttpServer

MCLength == [x \in {"imgA", "imgB"} |-> IF x = "imgA" THEN 3 ELSE 2]
MCHandlers == {"/404", "/", "/rest/ota_state"}
MCPageLen == [u \in MCHandlers |-> IF u = "/" THEN 2 ELSE 1]
Escapes == {<<"&", "%26">>, <<"=", "%3D">>, <<"+", "%2B">>, <<" ", "+">>}
MCEscape == [ch \in {e[1] : e \in Escapes} |-> (CHOOSE e \in Escapes : e[1] = ch)[2]]
MCDecoded == [t \in {e[2] : e \in Escapes} |-> (CHOOSE e \in Escapes : e[2] = t)[1]]

Get(uri, params) ==
    [method |-> "GET", uri |-> uri, len |-> 0, image |-> NoImage, params |-> params,
     query |-> CASE Len(params) = 0 -> <<>>
                 [] Len(params) = 1 -> Written(params[1])
                 [] Len(params) = 2 -> Written(params[1]) \o <<"&">> \o Written(params[2])]
Post(uri, img, len) ==
    [method |-> "POST", uri |-> uri, len |-> len, image |-> img,
     params |-> <<>>, query |-> <<>>]

Action(a) == <<<<"a0">>, <<a>>>>
Crc(x) == <<<<"crc">>, <<x>>>>
MCRequests ==
    {Post("/ota/upload", "imgA", 3), Post("/ota/upload", "imgB", 2),
     Post("/ota/upload", "imgB", 5), Post("/rest/none", "imgB", 1),
     Get("/rest/ota_state", <<Action("verify"), Crc("imgA")>>),
     Get("/rest/ota_state", <<Action("verify"), Crc("imgB")>>),
     Get("/rest/ota_state", <<Action("apply")>>), Get("/rest/ota_state", <<Action("reset")>>),
     Get("/", <<<<<<"p">>, <<"x", "&", "y", "=", "+", " ">>>>, <<<<"q">>, <<"z">>>>>>),
     [Get("/none", <<>>) EXCEPT !.method = "BAD"]}
=============================================================================
