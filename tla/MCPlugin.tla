-------------------------------- MODULE MCPlugin ------------------------------
(* Core and three plugins: every graph in which each of the three depends  *)
(* on at most one other, with sound specs scanned in the order of their     *)
(* names and with a broken one scanned last, and the shapes with more       *)
(* dependencies: a chain, a diamond with an optional side, a cycle and      *)
(* plugins above a broken spec, with disabled plugins.                      *)
EXTENDS PluginManager

MCPlugins == 1..4
MCCore == 4

On(q) == [spec |-> q, type |-> "required"]
Optionally(q) == [spec |-> q, type |-> "optional"]

MCInstallation(dependencies, broken, enabled, order) ==
    [dependencies   |-> dependencies,
     unreadable     |-> {},
     unresolvable   |-> broken,
     enabled        |-> enabled,
     directoryOrder |-> order,
     nameOrder      |-> <<1, 2, 3, 4>>]

(* At most one dependency on another of the three. *)
DependencyLists(p) ==
    {<<>>} \union {<<[spec |-> q, type |-> t]>> :
                      q \in 1..3 \ {p}, t \in {"required", "optional"}}

Graphs ==
    {MCInstallation(<<d1, d2, d3, <<>>>>, scan[1], MCPlugins, scan[2]) :
        d1 \in DependencyLists(1), d2 \in DependencyLists(2),
        d3 \in DependencyLists(3),
        scan \in {<<{}, <<1, 2, 3, 4>>>>, <<{2}, <<3, 1, 4, 2>>>>}}

Chain   == <<<<On(2)>>, <<On(3)>>, <<On(4)>>, <<>>>>
Diamond == <<<<On(2), Optionally(3)>>, <<On(4)>>, <<On(4)>>, <<>>>>
Cycle   == <<<<On(2), On(4)>>, <<Optionally(1)>>, <<On(4)>>, <<>>>>
Above   == <<<<On(4), Optionally(2)>>, <<>>, <<Optionally(1), On(4)>>, <<>>>>

Shapes ==
    {<<Chain, {}, MCPlugins>>, <<Chain, {}, {1, 2, 4}>>,
     <<Diamond, {}, MCPlugins>>, <<Diamond, {}, {1, 3, 4}>>,
     <<Cycle, {}, MCPlugins>>, <<Above, {2}, MCPlugins>>}

MCInstallations ==
    Graphs \union {MCInstallation(s[1], s[2], s[3], <<2, 1, 4, 3>>) : s \in Shapes}
===============================================================================
