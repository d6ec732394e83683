------------------------------- MODULE MCPanel -------------------------------
(***************************************************************************)
(* What is posted to the panel in the checked instance: the web form's     *)
(* payloads, and a few written by hand.                                    *)
(***************************************************************************)
EXTENDS Panel

Posted(protocol, core, port, settings, tls) ==
  [protocol |-> protocol, core |-> core, port |-> port, settings |-> settings, tls |-> tls]

(* pages/Protocols.tsx: server names as an array, legacy key names *)
FormReality == [uuid |-> Text(""), flow |-> Text(Vision), dest |-> Text("d"),
                server_names |-> List(<<"s">>), private_key |-> Text("k"),
                public_key |-> Text("k"), short_id |-> Text("i")]
FormTls == [enabled |-> "yes"]

(* Raw JSON *)
RawReality == [flow |-> Text(Vision), network |-> Text("ws"), path |-> Text("/p"),
               reality_dest |-> Text("d"), reality_server_names |-> Text("d"),
               reality_private_key |-> Text("k"), public_key |-> Text("k")]
RawGrpc == [network |-> Text("grpc"), service_name |-> Text("p"), reality_dest |-> Text("d"),
            reality_private_key |-> Text("k"), public_key |-> Text("k")]
RawKeyless == [flow |-> Text(Vision), reality_dest |-> Text("d"), server_names |-> Text("s"),
               reality_private_key |-> Text("k")]
RawFlowless == [server_names |-> Text("s"), reality_dest |-> Text("d"),
                reality_private_key |-> Text("k"), public_key |-> Text("k"),
                fingerprint |-> Text("opera")]
RawUnset == [password |-> Text(""), obfs_type |-> Text("salamander")]
RawUnknown == [obfs_type |-> Text("xor"), obfs_password |-> Text("o")]
RawHysteria2 == [obfs_type |-> Text("salamander"), obfs_password |-> Text("o")]
Imported == [clients |-> List(<<[cred |-> "x", name |-> "x", flow |-> ""]>>)]

MCStored == {Posted("vless_reality", "sing-box", 1, FormReality, None),
             Posted("vless_reality", "sing-box", 1, RawReality, None),
             Posted("vless_reality", "sing-box", 1, RawGrpc, None),
             Posted("vless_reality", "mihomo", 1, RawKeyless, None),
             Posted("vless_reality", "sing-box", 1, RawFlowless, None),
             Posted("hysteria2", "sing-box", 1, RawUnset, FormTls),
             Posted("hysteria2", "mihomo", 1, RawHysteria2, DefaultTls),
             Posted("hysteria2", "mihomo", 1, RawUnknown, DefaultTls),
             Posted("anytls", "mihomo", 2, Imported, DefaultTls)}

MCPayload == {x \in MCStored : x.settings \in {FormReality, RawHysteria2}}

Plain == [over |-> NoKeys, tls |-> None]
MCOverride == {Plain, [over |-> NoKeys, tls |-> [cert_id |-> CHOOSE k \in Cert : TRUE]],
               [over |-> NoKeys, tls |-> [domain |-> "d"]],
               [over |-> [listen_port |-> Number(3), short_id |-> Text("o"),
                         obfs_password |-> Text("w")], tls |-> None]}

MCHostEntry == {[active |-> TRUE, port |-> 4, set |-> [sni |-> Text("h")]],
                [active |-> TRUE, port |-> 1, set |-> [host |-> Text("h"), path |-> Text("/h")]],
                [active |-> FALSE, port |-> 4, set |-> NoKeys]}
==============================================================================
