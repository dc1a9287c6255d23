----------------------------- MODULE MC_Generator -----------------------------
(* Generator with one rdl2arch.toml of each kind (not TOML, a section that   *)
(* is no table, an unknown section, an unknown key, a bad value, and well-   *)
(* formed), instance names that flatten alike (ch_ch, and ch in ch; reg is a *)
(* keyword), and a directory for two good builds of one design, builds of it *)
(* that each stage rejects, and a second design. MCNumberedNames is for the  *)
(* run on names that end in a number.                                        *)
EXTENDS Generator

Fn(key, v) == [k \in {key} |-> v]
Toml(s, body) == [toml |-> TRUE, scalars |-> {}, tables |-> [t \in {s} |-> body]]

MCContents ==
  {[toml |-> FALSE, scalars |-> {}, tables |-> [t \in {} |-> ""]],
   [toml |-> TRUE, scalars |-> {"cpuif"}, tables |-> [t \in {} |-> ""]],
   Toml("<other>", Fn("addr_width", "true")),
   Toml("cpuif.apb4", Fn("addr_width", "true")),
   Toml("rdl2arch", Fn("data_width", "bad")),
   Toml("rdl2arch", Fn("addr_width", "true")),
   [toml |-> TRUE, scalars |-> {},
    tables |-> [s \in {"cpuif.apb4", "rdl2arch"} |->
                  IF s = "rdl2arch" THEN Fn("reset_style", "true")
                                    ELSE Fn("combinational_readback", "false")]]}

NoFlags == [k \in Knob |-> Unset]

MCFlagSets ==
  {NoFlags, [NoFlags EXCEPT !["addr_width"] = "true"],
   [NoFlags EXCEPT !["addr_width"] = "false", !["combinational_readback"] = "false"]}

MCInstNames == {<<"ch">>, <<"reg">>, <<"ch", "_", "ch">>}
MCNumberedNames == {<<"ch">>, <<"ch", "1">>}
MCKeywords  == {<<"reg">>}
MCFields    == {<<"en">>, <<"ch">>}

Build(package, module, build, has) ==
  [package_name |-> package, module_name |-> module, has |-> has, build |-> build]

MCDesigns ==
  {Build("MyIpPkg", "MyIp", 1, {}), Build("MyIpPkg", "MyIp", 2, {}),
   Build("MyIpPkg", "MyIp", 3, {"addr_width < 1"}), Build("MyIpPkg", "MyIp", 4, {"counter"}),
   Build("MyIpPkg", "MyIp", 5, {"intr on an array"}), Build("DmaPkg", "Dma", 1, {})}
=============================================================================
