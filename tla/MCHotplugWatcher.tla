-------------------------- MODULE MCHotplugWatcher --------------------------
(* A few entries of every probe; a behaviour has those of one of the worlds. *)
EXTENDS HotplugWatcher

Entry(probe, root, kind, name, bus, on) ==
    [probe |-> probe, root |-> root, kind |-> kind, name |-> name, bus |-> bus, on |-> on,
     number |-> 0]

GpioChip == Entry("gpio", <<"class/gpio">>, "chip", "gpiochip0", 0, "")
Led == Entry("leds", <<"class/leds">>, "led", "act", 0, "")
PwmChip == Entry("pwm", <<"class/pwm">>, "chip", "pwmchip0", 0, "")
Fan == Entry("hwmon", <<"class/hwmon">>, "fan", "hwmon0", 0, "")
I2cBus == Entry("i2c", <<"class/i2c-dev">>, "bus", "i2c-1", 1, "")
I2cDevice == Entry("i2c", <<"bus/i2c/devices">>, "device", "1-0050", 1, "")
I2cOther == Entry("i2c", <<"bus/i2c/devices">>, "device", "1-0051", 1, "")
SpiDevice == Entry("spi", <<"bus/spi/devices">>, "device", "spi0.0", 0, "")
SpiOther == Entry("spi", <<"bus/spi/devices">>, "device", "spi0.1", 0, "")
Port == Entry("uart", <<"class/tty">>, "port", "ttyS0", 0, "")
UsbDevice == Entry("usb", <<"bus/usb/devices">>, "device", "1-1", 1, "")
UsbInterface == Entry("usb", <<"bus/usb/devices">>, "interface", "1-1:1.0", 1, "1-1")
UsbOther == Entry("usb", <<"bus/usb/devices">>, "interface", "1-1:2.0", 1, "1-1")
UsbBus == Entry("usb", <<"bus/usb/devices">>, "bus", "usb1", 1, "")

\* In the order of their paths, below each root.
MCListing ==
    <<GpioChip, Led, PwmChip, Fan, I2cBus, I2cDevice, I2cOther, SpiDevice, SpiOther, Port,
      UsbDevice, UsbInterface, UsbOther, UsbBus>>

MCWorlds ==
    {{PwmChip}, {GpioChip, Led}, {Fan, Port}, {I2cBus, I2cDevice},
     {I2cDevice, I2cOther}, {SpiDevice, SpiOther}, {UsbDevice, UsbBus},
     {UsbDevice, UsbInterface, UsbOther}}
=============================================================================
