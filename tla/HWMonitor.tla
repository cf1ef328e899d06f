-------------------------------- MODULE HWMonitor --------------------------------
(***************************************************************************)
(* HWMonitor: the menu it builds when it wakes, the disks it reads through *)
(* SMART every five minutes, the Bluetooth devices that come and go, and   *)
(* what its titles and the status bar show.  Everything runs on the main   *)
(* thread: a timer, the opening of the menu or a click calls updateTitles. *)
(*                                                                         *)
(* A sensor is known by its group and its key; the readings of SMC keys    *)
(* are those of the module Readings and are one value here.                *)
(***************************************************************************)
EXTENDS Integers, Sequences, FiniteSets
LOCAL INSTANCE SequencesExt

CONSTANTS
  Desktops,   (* the machines: headed, for each awake the SMC keys that can *)
              (* be read, in order; disks, in the order of the iterator;      *)
              (* volumes, as they are mounted; devices, the Bluetooth         *)
              (* devices that may be connected                                *)
  Degrees,    (* the temperatures of disks                                    *)
  MaxFavorites

\* A disk has a model, a list of the SMART attributes it reports, and is marked
\* SMART capable or only found as a block storage device; it may not let itself be
\* identified.  A volume is on one disk, and under /Volumes or not.
ASSUME DesktopsAssumption ==
  /\ Degrees \subseteq Nat \ {0} /\ MaxFavorites \in Nat
  /\ \A d \in Desktops :
       /\ \A i \in DOMAIN d.disks : /\ d.disks[i].attributes \in Seq(Nat)
                                    /\ {d.disks[i].capable, d.disks[i].known} \subseteq BOOLEAN
       /\ \A i \in DOMAIN d.volumes : d.volumes[i].disk \in DOMAIN d.disks /\ d.volumes[i].under \in BOOLEAN
       /\ IsFiniteSet(d.devices)

VARIABLES
  desktop,
  heat,        (* hardware: the temperature of each disk, 0 when SMART fails  *)
  connected,   (* hardware: the Bluetooth devices                             *)
  awake,
  menu,        (* statusMenu with menusCount and lastMenusCount               *)
  latestData,  (* with temp and life, the last values read of any disk        *)
  favorites,   (* the sensors in the status bar                               *)
  isMenuVisible,
  titles,      (* the value in the title of each sensor                       *)
  bar,         (* what the status bar shows of each favourite                 *)
  seen,        (* history: the temperature each disk had at the last update   *)
  joined       (* history: a device came while one in the menu was connected  *)

monitorVars == <<desktop, heat, connected, awake, menu, latestData, favorites, isMenuVisible, titles, bar, seen, joined>>

Disks == DOMAIN desktop.disks
None == 0

-----------------------------------------------------------------------------
(* ISPSmartController.                                                      *)

\* getSMARTTempForInterface: the first attribute of either kind is taken.
Heats_OneKind(a) == a = 194
Heats(a) == a \in {190, 194}
Wears(a) == a = 177
Deciding(d) == SelectSeq(desktop.disks[d].attributes, LAMBDA a : Heats(a) \/ Wears(a))

\* getSMARTData: temp and life are not reset, so that a disk without one of them,
\* or that fails, has what was read last.
SmartRead(data, d) ==
  LET readable == desktop.disks[d].known /\ heat[d] # None /\ Deciding(d) # <<>>
      temp == IF readable /\ Heats(Deciding(d)[1]) THEN heat[d] ELSE data.temp
      life == IF readable /\ Wears(Deciding(d)[1]) THEN d ELSE data.life
  IN  IF ~desktop.disks[d].known THEN data
      ELSE [temp |-> temp, life |-> life,
            disks |-> IF temp = None /\ life = None THEN data.disks
                      ELSE Append(data.disks, [disk |-> d, temp |-> temp, life |-> life])]

Pass(data, capable) ==
  FoldLeft(SmartRead, data, SelectSeq([d \in Disks |-> d], LAMBDA d : capable => desktop.disks[d].capable))

\* update: the block storage devices are tried when nothing is capable.
SmartUpdate ==
  LET data == Pass([latestData EXCEPT !.disks = <<>>], TRUE)
  IN  IF data.disks # <<>> THEN data ELSE Pass(data, FALSE)

\* getPartitions: the volume mounted first, and those under /Volumes.  A disk goes by
\* the names of its partitions, one without them by its model.
Partitions(d) ==
  LET Taken(i) == (i = 1 \/ desktop.volumes[i].under) /\ desktop.volumes[i].disk = d
      taken == SelectSeq([i \in DOMAIN desktop.volumes |-> i], Taken)
  IN  [i \in DOMAIN taken |-> desktop.volumes[taken[i]].name]
DiskName(d) == IF Partitions(d) # <<>> THEN Partitions(d) ELSE <<desktop.disks[d].model>>

\* getDataSet and getSSDLife: of two disks of one name the last is kept.
DataSet(data, group, field) ==
  LET has == {i \in DOMAIN data.disks : data.disks[i][field] # None}
      Name(i) == DiskName(data.disks[i].disk)
  IN  [key \in {<<group, Name(i)>> : i \in has} |->
         data.disks[CHOOSE i \in has : Name(i) = key[2] /\ \A j \in has : Name(j) = key[2] => j <= i][field]]

DiskValues(data) == DataSet(data, "disk", "temp")
LifeValues(data) == DataSet(data, "ssd", "life")
DeviceValues == [key \in {<<"battery", v>> : v \in connected} |-> None]

-----------------------------------------------------------------------------
(* The menu.                                                                *)

Item(kind, key) == [kind |-> kind, key |-> key]
SensorsOf(m) == {m.items[i].key : i \in {j \in DOMAIN m.items : m.items[j].kind = "sensor"}}

AddSensor(m, key) ==
  [m EXCEPT !.items = InsertAt(@, m.menusCount + 1, Item("sensor", key)), !.menusCount = @ + 1]

\* insertFooterAndTitle: nothing is headed when nothing was added.
FooterAt_Unshifted(m) == m.menusCount + 1
FooterAt(m) == m.menusCount + 2
InsertFooterAndTitle(m, heads) ==
  IF m.lastMenusCount = m.menusCount THEN m
  ELSE [items |-> InsertAt(InsertAt(m.items, m.lastMenusCount + 1, Item("title", heads)), FooterAt(m), Item("separator", heads)),
        menusCount |-> m.menusCount + 2, lastMenusCount |-> m.menusCount + 2]

\* awakeFromNib: every heading with its sensors, in the order of the source or, out
\* of a dictionary, in any order.  A group of SMC keys may have several headings:
\* that of the frequencies is inserted anew for each GPU.  The keys of the first
\* battery are listed on every machine, so that the list is never empty.  The user
\* defaults tell the favourites.
Headed(group, keys) == [group |-> group, keys |-> keys]
AddHeaded(m, h) == InsertFooterAndTitle(FoldLeft(AddSensor, m, [i \in DOMAIN h.keys |-> <<h.group, h.keys[i]>>]), h.group)
Names(keys) == {key[2] : key \in keys}

AwakeFromNib ==
  /\ ~awake
  /\ awake' = TRUE
  /\ latestData' = SmartUpdate /\ seen' = heat
  /\ \E disks \in SetToSeqs(Names(DOMAIN DiskValues(latestData'))),
        ssds \in SetToSeqs(Names(DOMAIN LifeValues(latestData'))),
        devices \in SetToSeqs(connected) :
       menu' = FoldLeft(AddHeaded, menu,
                        desktop.headed \o <<Headed("disk", disks), Headed("ssd", ssds),
                                            Headed("battery", <<"voltage", "amperage">> \o devices)>>)
  /\ favorites' \in {chosen \in SUBSET SensorsOf(menu') : Cardinality(chosen) <= MaxFavorites}
  /\ titles' = [key \in SensorsOf(menu') |-> None]
  /\ UNCHANGED <<desktop, heat, connected, isMenuVisible, bar, joined>>

\* The devices that are not listed are added at the end, and headed unless one
\* that is listed is connected too.
NewDevices == DOMAIN DeviceValues \ SensorsOf(menu)
KnownDevices == DOMAIN DeviceValues \intersect SensorsOf(menu)
WithDevices(order) ==
  LET added == FoldLeft(AddSensor, menu, order)
  IN  IF connected # {} /\ KnownDevices = {} THEN InsertFooterAndTitle(added, "battery") ELSE added

\* The value of each sensor: from SMART, from the devices, else read as a key.
Shown(data, key) ==
  CASE key[1] = "disk" -> IF key \in DOMAIN DiskValues(data) THEN DiskValues(data)[key] ELSE None
    [] key[1] = "ssd" -> IF key \in DOMAIN LifeValues(data) THEN LifeValues(data)[key] ELSE None
    [] OTHER -> None

\* updateTitles, with SMART data read again when five minutes are over.
UpdateTitles(visible, chosen, due) ==
  \E order \in SetToSeqs(NewDevices) :
    /\ latestData' = IF due THEN SmartUpdate ELSE latestData
    /\ seen' = IF due THEN heat ELSE seen
    /\ menu' = WithDevices(order)
    /\ titles' = [key \in SensorsOf(menu') |-> IF visible THEN Shown(latestData', key)
                                             ELSE IF key \in DOMAIN titles THEN titles[key] ELSE None]
    /\ bar' = [key \in chosen |-> Shown(latestData', key)]
    /\ joined' = (joined \/ (NewDevices # {} /\ KnownDevices # {}))

Tick(due) ==
  /\ awake
  /\ UpdateTitles(isMenuVisible, favorites, due)
  /\ UNCHANGED <<desktop, heat, connected, awake, favorites, isMenuVisible>>

MenuWillOpen(due) ==
  /\ awake /\ ~isMenuVisible
  /\ isMenuVisible' = TRUE
  /\ UpdateTitles(TRUE, favorites, due)
  /\ UNCHANGED <<desktop, heat, connected, awake, favorites>>

MenuDidClose ==
  /\ isMenuVisible
  /\ isMenuVisible' = FALSE
  /\ UNCHANGED <<desktop, heat, connected, awake, menu, latestData, favorites, titles, bar, seen, joined>>

\* A sensor becomes a favourite, or ceases to be one.
MenuItemClicked(key, due) ==
  /\ awake /\ key \in SensorsOf(menu)
  /\ key \in favorites \/ Cardinality(favorites) < MaxFavorites
  /\ favorites' = IF key \in favorites THEN favorites \ {key} ELSE favorites \union {key}
  /\ UpdateTitles(isMenuVisible, favorites', due)
  /\ UNCHANGED <<desktop, heat, connected, awake, isMenuVisible>>

-----------------------------------------------------------------------------
\* Disks get warmer, fail and recover; devices come and go.
DiskChanges(d, t) ==
  /\ t \in Degrees \union {None} /\ t # heat[d] /\ desktop.disks[d].known
  /\ heat' = [heat EXCEPT ![d] = t]
  /\ UNCHANGED <<desktop, connected, awake, menu, latestData, favorites, isMenuVisible, titles, bar, seen, joined>>

DeviceChanges(v) ==
  /\ v \in desktop.devices
  /\ connected' = IF v \in connected THEN connected \ {v} ELSE connected \union {v}
  /\ UNCHANGED <<desktop, heat, awake, menu, latestData, favorites, isMenuVisible, titles, bar, seen, joined>>

MonitorInit ==
  /\ desktop \in Desktops
  /\ heat \in [Disks -> Degrees \union {None}] /\ \A d \in Disks : ~desktop.disks[d].known => heat[d] = None
  /\ connected \in SUBSET desktop.devices
  /\ awake = FALSE
  /\ menu = [items |-> <<Item("own", "Quit")>>, menusCount |-> 0, lastMenusCount |-> 0]
  /\ latestData = [temp |-> None, life |-> None, disks |-> <<>>]
  /\ favorites = {} /\ isMenuVisible = FALSE /\ titles = <<>> /\ bar = <<>>
  /\ seen = heat /\ joined = FALSE

MonitorNext ==
  \/ AwakeFromNib
  \/ \E due \in BOOLEAN : Tick(due) \/ MenuWillOpen(due) \/ \E key \in SensorsOf(menu) : MenuItemClicked(key, due)
  \/ MenuDidClose
  \/ \E d \in Disks, t \in Degrees \union {None} : DiskChanges(d, t)
  \/ \E v \in desktop.devices : DeviceChanges(v)

MonitorSpec == MonitorInit /\ [][MonitorNext]_monitorVars
-----------------------------------------------------------------------------
\* Types of the variables; favourites and titles are of sensors in the menu.
MonitorTypeOK ==
  /\ desktop \in Desktops /\ heat \in [Disks -> Degrees \union {None}] /\ seen \in [Disks -> Degrees \union {None}]
  /\ connected \subseteq desktop.devices
  /\ {awake, isMenuVisible, joined} \subseteq BOOLEAN
  /\ menu.menusCount = Len(menu.items) - 1 /\ menu.lastMenusCount \in 0..menu.menusCount
  /\ favorites \subseteq SensorsOf(menu) /\ DOMAIN titles = SensorsOf(menu) /\ DOMAIN bar \subseteq favorites
  /\ latestData.temp \in Degrees \union {None}

\* Every sensor stands under a heading of its group, with only sensors between,
\* whatever the insertions by position that build the menu and add devices to it
\* later; except after a device came to others that were listed already.
MenuIsGrouped ==
  joined \/
  \A i \in DOMAIN menu.items : menu.items[i].kind = "sensor" =>
    \E j \in 1..(i - 1) : /\ menu.items[j] = Item("title", menu.items[i].key[1])
                          /\ \A k \in (j + 1)..(i - 1) : menu.items[k].kind = "sensor"

\* A disk whose temperature was read at the last update is shown with it in the
\* status bar and in the open menu, whichever disks were read before it, failed,
\* or have no thermometer; as long as no other disk has its name.
DisksShowTheirOwn ==
  \A d \in Disks :
    LET telling == SelectSeq(desktop.disks[d].attributes, LAMBDA a : a \in {177, 190, 194})
        key == <<"disk", DiskName(d)>>
    IN  (/\ awake /\ desktop.disks[d].capable /\ desktop.disks[d].known /\ seen[d] # None
         /\ telling # <<>> /\ telling[1] # 177
         /\ \A e \in Disks \ {d} : DiskName(e) # DiskName(d))
        => /\ key \in DOMAIN bar => bar[key] = seen[d]
           /\ (isMenuVisible /\ key \in DOMAIN titles) => titles[key] = seen[d]

\* What the menu says is where it belongs and belongs to what it stands for.
MenuIsTrue == MenuIsGrouped /\ DisksShowTheirOwn
=============================================================================
