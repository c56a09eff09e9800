------------------------------ MODULE UsbDesc ------------------------------
(***************************************************************************)
(* Which interfaces of a USB device the daemon is to use: the walk over    *)
(* its configurations, interfaces, alternate settings and endpoints        *)
(* (libusbBuildUsbDeviceDesc of usbio_libusb.go, and usbcommon.go).        *)
(*                                                                         *)
(* A device is a record of its vendor and its configurations.  A           *)
(* configuration has a value, interfaces, and whether its descriptor can   *)
(* be read; an interface is a sequence of alternate settings.              *)
(***************************************************************************)
EXTENDS Integers, Sequences, SequencesExt

\* Class, subclass and protocol: the classical ones, or those of some HP
\* devices.
IsIppOverUsb(vendor, alt) ==
  \/ alt.class = "7/1/4"
  \/ vendor = "HP" /\ alt.class = "255/9/1"

\* The first endpoint of a direction, or -1.
FirstEndpoint(alt, dir) ==
  LET eps == SelectSeq(alt.endpoints, LAMBDA e : e.dir = dir)
  IN  IF eps = <<>> THEN -1 ELSE Head(eps).num

\* One alternate setting of a configuration.
AddAlt(vendor, config, desc, alt) ==
  LET in  == FirstEndpoint(alt, "in")
      out == FirstEndpoint(alt, "out")
      all == [desc EXCEPT !.IfDescs = Append(@, <<config, alt.num, alt.alt>>)]
  IN  IF IsIppOverUsb(vendor, alt) /\ in >= 0 /\ out >= 0
      THEN [all EXCEPT !.Config = config,
                       !.IfAddrs = Append(@, [Num |-> alt.num, Alt |-> alt.alt,
                                              In |-> in, Out |-> out])]
      ELSE all

\* Mutant: configurations are mixed.
AddConfigAny(vendor, desc, conf) ==
  IF ~conf.readable THEN desc
  ELSE FoldLeft(LAMBDA d, alt : AddAlt(vendor, conf.value, d, alt),
                desc, FlattenSeq(conf.ifaces))

\* One configuration.  Once an interface was taken from one, others are left
\* out.
AddConfig(vendor, desc, conf) ==
  IF ~conf.readable \/ (desc.Config >= 0 /\ desc.Config # conf.value) THEN desc
  ELSE FoldLeft(LAMBDA d, alt : AddAlt(vendor, conf.value, d, alt),
                desc, FlattenSeq(conf.ifaces))

libusbBuildUsbDeviceDesc(dev) ==
  FoldLeft(LAMBDA d, conf : AddConfig(dev.vendor, d, conf),
           [Config |-> -1, IfAddrs |-> <<>>, IfDescs |-> <<>>], dev.configs)

\* UsbGetIppOverUsbDeviceDescs, for a device: its descriptor, if two alternate
\* settings or more can be used.  The comment in the code says "ignore devices,
\* if we don't have at least 2 IPP over USB interfaces", but it is alternate
\* settings that IfAddrs lists: two of one interface are enough.
UsbGetIppOverUsbDeviceDesc(dev) ==
  LET desc == libusbBuildUsbDeviceDesc(dev)
  IN  IF Len(desc.IfAddrs) >= 2 THEN <<desc>> ELSE <<>>
=============================================================================
