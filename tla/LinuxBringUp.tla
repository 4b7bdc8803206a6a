---------------------------- MODULE LinuxBringUp -----------------------------
(***************************************************************************)
(* What the Linux ENA driver acquires and releases: probe and removal, up  *)
(* and down, reset, suspend and resume, changes of the queues.  See Steps  *)
(* for the vocabulary and BringUp for what is asked of it.                 *)
(***************************************************************************)
EXTENDS HalBringUp

\* Memory of the rings.
ena_setup_tx_resources == Fn(
    If(Held("tx_buffer_info"), Raise(Return)) \o
    Get("tx_buffer_info", "err_tx_buffer_info") \o
    Get("tx_free_ids", "err_tx_free_ids") \o
    Get("push_buf", "err_push_buf_intermediate_buf"),
    Label("err_push_buf_intermediate_buf", Put("tx_free_ids")) \o
    Label("err_tx_free_ids", Put("tx_buffer_info")))
ena_free_tx_resources == Simple(
    PutIfHeld("tx_buffer_info") \o PutIfHeld("tx_free_ids") \o PutIfHeld("push_buf"))
ena_setup_all_tx_resources == Fn(
    Each(Call("ena_setup_tx_resources", "err_setup_tx")),
    Label("err_setup_tx", Below(Best("ena_free_tx_resources"))))
ena_free_all_io_tx_resources == Simple(Each(Best("ena_free_tx_resources")))
ena_setup_rx_resources == Fn(
    If(Held("rx_buffer_info"), Raise(Return)) \o
    Get("rx_buffer_info", Return) \o
    Get("rx_free_ids", "no_free_ids"),
    Label("no_free_ids", Put("rx_buffer_info")))
ena_free_rx_resources == Simple(
    PutIfHeld("page_pool") \o PutIfHeld("rx_buffer_info") \o PutIfHeld("rx_free_ids"))
ena_setup_all_rx_resources == Fn(
    Each(Call("ena_setup_rx_resources", "err_setup_rx")),
    Label("err_setup_rx", Below(Best("ena_free_rx_resources"))))
ena_free_all_io_rx_resources == Simple(Each(Best("ena_free_rx_resources")))

\* What the rings hold: pages given to the device, packets not completed.
ena_free_rx_bufs == Simple(Touch("rx_buffer_info") \o PutIfHeld("rx_bufs"))
ena_refill_all_rx_bufs == Simple(Each(Touch("rx_buffer_info") \o Set("rx_bufs")))
ena_free_all_rx_bufs == Simple(Each(Best("ena_free_rx_bufs")))
ena_free_tx_bufs == Simple(Touch("tx_buffer_info") \o Clear("tx_bufs"))
ena_free_all_tx_bufs == Simple(Each(Best("ena_free_tx_bufs")))

\* Queues of the device.
ena_destroy_all_tx_queues == Simple(Each(Best("ena_com_destroy_io_queue")))
ena_destroy_all_rx_queues == Simple(Each(
    Clear("dim_work") \o
    Best("ena_xdp_unregister_rxq_info") \o
    Rx(Best("ena_com_destroy_io_queue"))))
ena_destroy_all_io_queues == Simple(
    Best("ena_destroy_all_tx_queues") \o Best("ena_destroy_all_rx_queues"))
ena_create_io_tx_queue == Simple(Call("ena_com_create_io_queue", Return))
ena_create_all_io_tx_queues == Fn(
    Each(Call("ena_create_io_tx_queue", "create_err")),
    Label("create_err", Below(Best("ena_com_destroy_io_queue"))))
ena_create_io_rx_queue == Simple(Rx(Call("ena_com_create_io_queue", Return)))
ena_create_all_io_rx_queues == Fn(
    Each(Call("ena_create_io_rx_queue", "create_err") \o
         Set("dim_work") \o
         Best("ena_xdp_register_rxq_info")),
    Label("create_err", Below(
         Best("ena_xdp_unregister_rxq_info") \o
         Clear("dim_work") \o
         Rx(Best("ena_com_destroy_io_queue")))))
ena_xdp_register_rxq_info == Fn(
    Get("xdp_rxq", Return) \o
    Try("mem_model"),
    Label("mem_model", Put("xdp_rxq")))
ena_xdp_unregister_rxq_info == Simple(PutIfHeld("xdp_rxq"))
ena_create_page_pool == Simple(Each(
    If(Feature("page_pool"), Get("page_pool", Return))))
ena_create_page_caches == Fn(
    Each(Get("page_cache", "err_cache_alloc")),
    Label("err_cache_alloc", Below(Best("ena_free_ring_page_cache"))))
ena_free_ring_page_cache == Simple(PutIfHeld("page_cache"))
ena_free_ring_cache_pages == Simple(If(Held("page_cache"), Touch("page_cache")))
ena_free_all_cache_pages == Simple(Each(Best("ena_free_ring_cache_pages")))
ena_free_page_caches == Simple(Each(Best("ena_free_ring_page_cache")))

\* Tries again with smaller queues while memory is short.
create_queues_with_size_backoff == Fn(
    Call("ena_setup_all_tx_resources", "err_setup_tx") \o
    Call("ena_create_all_io_tx_queues", "err_create_tx_queues") \o
    Call("ena_setup_all_rx_resources", "err_setup_rx") \o
    Call("ena_create_page_pool", "err_create_rx_queues") \o
    Call("ena_create_all_io_rx_queues", "err_create_rx_queues") \o
    If(Without("page_pool"), Call("ena_create_page_caches", "err_create_rx_queues")),
    Label("err_create_rx_queues", Best("ena_free_all_io_rx_resources")) \o
    Label("err_setup_rx", Best("ena_destroy_all_tx_queues")) \o
    Label("err_create_tx_queues", Best("ena_free_all_io_tx_resources")) \o
    Label("err_setup_tx", If(Maybe, Retry)))

\* Interrupts and NAPI.
ena_init_rx_cpu_rmap == Fn(
    Get("rx_cpu_rmap", Return) \o
    Try("add"),
    Label("add", Put("rx_cpu_rmap")))
ena_enable_msix == Simple(
    If(Held("MSIX_ENABLED"), Raise(Return)) \o
    Get("msix", Return) \o
    If(Feature("rmap"), Best("ena_init_rx_cpu_rmap")) \o
    Set("MSIX_ENABLED"))
ena_disable_msix == Simple(
    If(Held("MSIX_ENABLED"), Put("msix")) \o
    Clear("MSIX_ENABLED"))
ena_request_mgmnt_irq == Simple(Touch("msix") \o Get("mgmnt_irq", Return))
ena_free_mgmnt_irq == Simple(Put("mgmnt_irq"))
\* Mutant: gives back the interrupts of all queues, not of those it had reached.
ena_request_io_irqFreesAll == Fn(
    If(Free("MSIX_ENABLED"), Raise(Return)) \o
    Each(Get("io_irq", "err")),
    Label("err", Each(Put("io_irq"))))
ena_request_io_irq == Fn(
    If(Free("MSIX_ENABLED"), Raise(Return)) \o
    Each(Get("io_irq", "err")),
    Label("err", Below(Put("io_irq"))))
ena_free_io_irq == Simple(
    PutIfHeld("rx_cpu_rmap") \o
    Each(Put("io_irq")))
ena_disable_io_intr_sync == Simple(Each(Touch("io_irq")))
ena_init_napi == Simple(Each(Have("napi")))
ena_del_napi == Simple(Each(Put("napi")))
ena_napi_enable == Simple(Each(Touch("napi") \o Have("napi_enabled")))
ena_napi_disable == Simple(Each(Put("napi_enabled")))
ena_enable_msix_and_set_admin_interrupts == Fn(
    Call("ena_enable_msix", Return) \o
    Call("ena_request_mgmnt_irq", "err_disable_msix") \o
    Best("ena_com_admin_aenq_enable"),
    Label("err_disable_msix", Best("ena_disable_msix")))

\* Up and down.
ena_rss_init_default == Fn(
    Call("ena_com_rss_init", "err_rss_init") \o
    Call("ena_com_indirect_table_fill_entry", "err_fill_indir") \o
    CallIfAble("ena_com_fill_hash_function", "err_fill_indir") \o
    CallIfAble("ena_com_set_default_hash_ctrl", "err_fill_indir"),
    Label("err_fill_indir", Best("ena_com_rss_destroy")))
ena_rss_configure == Simple(
    If(Free("rss_ind_tbl"), CallIfAble("ena_rss_init_default", Return)) \o
    CallIfAble("ena_com_indirect_table_set", Return) \o
    CallIfAble("ena_com_set_hash_function", Return) \o
    CallIfAble("ena_com_set_hash_ctrl", Return))
ena_change_mtu == Simple(
    Call("ena_com_set_dev_mtu", Return))
ena_up_complete == Simple(
    Call("ena_rss_configure", Return) \o
    Best("ena_change_mtu") \o
    Best("ena_refill_all_rx_bufs") \o
    Best("ena_napi_enable"))
ena_up == Fn(
    Best("ena_init_napi") \o
    Call("ena_request_io_irq", "err_req_irq") \o
    Call("create_queues_with_size_backoff", "err_create_queues_with_backoff") \o
    Call("ena_up_complete", "err_up") \o
    Set("DEV_UP") \o
    Each(Touch("io_irq") \o Touch("napi_enabled")),
    Label("err_up", If(Without("page_pool"), Best("ena_free_page_caches"))) \o
    Best("ena_destroy_all_tx_queues") \o
    Best("ena_free_all_io_tx_resources") \o
    Best("ena_destroy_all_rx_queues") \o
    Best("ena_free_all_io_rx_resources") \o
    Label("err_create_queues_with_backoff", Best("ena_free_io_irq")) \o
    Label("err_req_irq", Best("ena_del_napi")))
reset_if_triggered == Simple(
    Best("ena_com_dev_reset") \o
    Best("ena_com_set_admin_running_state"))
ena_down == Simple(
    Clear("DEV_UP") \o
    Best("ena_napi_disable") \o
    If(Held("TRIGGER_RESET"), Best("reset_if_triggered")) \o
    Best("ena_destroy_all_io_queues") \o
    Best("ena_disable_io_intr_sync") \o
    Best("ena_free_io_irq") \o
    Best("ena_del_napi") \o
    Best("ena_free_all_tx_bufs") \o
    Best("ena_free_all_rx_bufs") \o
    If(Without("page_pool"), Best("ena_free_all_cache_pages") \o
                             Best("ena_free_page_caches")) \o
    Best("ena_free_all_io_tx_resources") \o
    Best("ena_free_all_io_rx_resources"))
ena_open == Simple(Try(Return) \o Call("ena_up", Return))
ena_close == Simple(
    If(Free("DEVICE_RUNNING"), Leave) \o
    If(Held("DEV_UP"), Best("ena_down")) \o
    If(Free("ADMIN_RUNNING"), Set("TRIGGER_RESET")) \o
    Best("ena_fw_reset_device"))

\* The hardware clock.
ena_phc_alloc == Simple(Get("phc_info", Return))
ena_phc_free == Simple(PutIfHeld("phc_info"))
ena_phc_register == Simple(If(Free("ptp_clock"), Get("ptp_clock", Return)))
ena_phc_unregister == Simple(
    If(Held("ptp_clock"), If(Free("TRIGGER_RESET"), Put("ptp_clock"))))
ena_phc_init == Fn(
    If(Without("phc"), Raise("err_ena_com_phc_init")) \o
    Touch("phc_info") \o
    Call("ena_com_phc_init", "err_ena_com_phc_init") \o
    Call("ena_com_phc_config", "err_ena_com_phc_config") \o
    Call("ena_phc_register", "err_ena_com_phc_config"),
    Label("err_ena_com_phc_config", Best("ena_com_phc_destroy")) \o
    Label("err_ena_com_phc_init", If(Held("phc_info"), Touch("phc_info"))))
ena_phc_destroy == Simple(Best("ena_phc_unregister") \o Best("ena_com_phc_destroy"))

\* The device: its admin queue and what it is told first.
ena_config_host_info == Fn(
    Call("ena_com_allocate_host_info", Return) \o
    Call("ena_com_set_host_attributes", "err"),
    Label("err", Best("ena_com_delete_host_info")))
ena_config_debug_area == Fn(
    Call("ena_com_allocate_debug_area", Return) \o
    Get("reset_info", "err") \o
    Call("ena_com_set_host_attributes", "err"),
    Label("err", Best("ena_reset_reason_info_free")) \o
    Best("ena_com_delete_debug_area"))
ena_reset_reason_info_free == Simple(PutIfHeld("reset_info"))
ena_set_queues_placement_policy == Simple(
    If(Maybe, Leave) \o Best("ena_com_config_dev_mode"))
ena_map_llq_mem_bar == Simple(If(Maybe, Leave) \o Try(Return))
ena_device_init == Fn(
    Call("ena_com_mmio_reg_read_request_init", Return) \o
    Call("ena_com_dev_reset", "err_mmio_read_less") \o
    Call("ena_com_validate_version", "err_mmio_read_less") \o
    Call("ena_com_get_dma_width", "err_mmio_read_less") \o
    Try("err_mmio_read_less") \o
    Call("ena_com_admin_init", "err_mmio_read_less") \o
    Best("ena_config_host_info") \o
    Call("ena_com_get_dev_attr_feat", "err_admin_init") \o
    Call("ena_com_set_aenq_config", "err_admin_init") \o
    Best("ena_set_queues_placement_policy") \o
    Try("err_admin_init") \o
    Best("ena_phc_init") \o
    CallIfAble("ena_com_get_hw_timestamping_support", "err_phc_destroy"),
    Label("err_phc_destroy", Best("ena_phc_destroy")) \o
    Label("err_admin_init", Best("ena_com_abort_admin_commands")) \o
    Best("ena_com_delete_host_info") \o
    Best("ena_com_admin_destroy") \o
    Label("err_mmio_read_less", Best("ena_com_mmio_reg_read_request_destroy")))

\* Down to the bare device, and up again.
ena_destroy_device(graceful) == Simple(
    If(Free("DEVICE_RUNNING"), Leave) \o
    PutIfHeld("timer") \o
    Clear("dev_up_before_reset") \o
    If(Held("DEV_UP"), Set("dev_up_before_reset")) \o
    (IF graceful THEN <<>> ELSE Best("ena_com_set_admin_running_state")) \o
    If(Held("DEV_UP"), Best("ena_down")) \o
    If(Free("dev_up_before_reset"), Best("ena_com_dev_reset")) \o
    If(Free("TRIGGER_RESET"),
       If(Held("dev_up_before_reset"), Best("ena_com_dev_reset"))) \o
    Best("ena_free_mgmnt_irq") \o
    Best("ena_disable_msix") \o
    Best("ena_com_abort_admin_commands") \o
    Best("ena_com_admin_destroy") \o
    Best("ena_phc_destroy") \o
    Best("ena_com_mmio_reg_read_request_destroy") \o
    Clear("TRIGGER_RESET") \o
    Clear("DEVICE_RUNNING"))
ena_flow_steering_restore == Simple(
    If(Held("tbl_size"),
       Call("ena_com_flow_steering_restore_device_rules", Return) \o Leave) \o
    CallIfAble("ena_com_flow_steering_init", Return))
ena_configure_hw_timestamping == Simple(
    Lacks(Return) \o
    Call("ena_com_set_hw_timestamping_configuration", Return))
ena_restore_device == Fn(
    Call("ena_device_init", "err") \o
    Try("err_device_destroy") \o
    Call("ena_enable_msix_and_set_admin_interrupts", "err_device_destroy") \o
    CallIfAble("ena_flow_steering_restore", "err_disable_msix") \o
    CallIfAble("ena_configure_hw_timestamping", "err_disable_msix") \o
    If(Held("dev_up_before_reset"), Call("ena_up", "err_disable_msix")) \o
    Set("DEVICE_RUNNING") \o
    Have("timer"),
    Label("err_disable_msix", Best("ena_free_mgmnt_irq")) \o
    Best("ena_disable_msix") \o
    Label("err_device_destroy", Best("ena_com_abort_admin_commands")) \o
    Best("ena_com_admin_destroy") \o
    Best("ena_com_dev_reset") \o
    Best("ena_phc_destroy") \o
    Best("ena_com_mmio_reg_read_request_destroy") \o
    Label("err", Clear("DEVICE_RUNNING")))
ena_reset_device == Simple(Set("TRIGGER_RESET"))
check_for_admin_com_state == Simple(If(Free("ADMIN_RUNNING"), Set("TRIGGER_RESET")))
ena_fw_reset_device == Simple(
    If(Free("TRIGGER_RESET"), Leave) \o
    Best("ena_destroy_device") \o
    Call("ena_restore_device", Return))
ena_suspend == Simple(
    Clear("TRIGGER_RESET") \o Best("ena_destroy_device_gracefully"))
ena_resume == Simple(Call("ena_restore_device", Return))
ena_devlink_reload_down == Simple(
    Put("devlink_port") \o Best("ena_destroy_device"))
ena_devlink_reload_up == Fn(
    If(Free("DEVICE_RUNNING"), Call("ena_restore_device", "port")) \o
    Have("devlink_port"),
    Label("port", Have("devlink_port")))
ena_large_llq_set == Simple(
    If(Maybe, Leave) \o
    Best("ena_destroy_device") \o
    Call("ena_restore_device", Return))

\* Changes that need the interface down for a while.
note_dev_was_up == Clear("dev_was_up") \o If(Held("DEV_UP"), Set("dev_was_up"))
ena_update_queue_params(large_llq_changed) == Simple(
    note_dev_was_up \o
    Best("ena_close") \o
    (IF large_llq_changed
     THEN Best("ena_destroy_device") \o Call("ena_restore_device", Return) \o Try(Return)
     ELSE <<>>) \o
    If(Held("dev_was_up"), Call("ena_up", Return)))
ena_update_queue_count == Simple(
    note_dev_was_up \o
    Best("ena_close") \o
    Best("ena_com_rss_destroy") \o
    If(Held("dev_was_up"), Call("ena_open", Return) \o Leave) \o
    Call("ena_rss_configure", Return) \o
    Try(Return))
ena_set_lpc_state == Simple(
    If(Maybe, Leave) \o
    Lacks(Return) \o
    note_dev_was_up \o
    If(Held("dev_was_up"), Best("ena_close") \o Best("ena_up")))
ena_set_timestamp_config_internal == Simple(
    Lacks(Return) \o
    note_dev_was_up \o
    Best("ena_close") \o
    Best("ena_configure_hw_timestamping") \o
    If(Held("dev_was_up"), Call("ena_up", Return)))
ena_destroy_and_free_all_xdp_queues == Simple(
    note_dev_was_up \o
    If(Held("dev_was_up"), Best("ena_down")) \o
    Clear("xdp_prog") \o
    If(Held("dev_was_up"), Call("ena_up", Return)))
ena_xdp_set(prog) == Simple(
    Try(Return) \o
    (IF prog
     THEN Clear("dev_was_up") \o
          If(Free("xdp_prog"), If(Held("DEV_UP"), Set("dev_was_up") \o Best("ena_down"))) \o
          Set("xdp_prog") \o
          If(Held("dev_was_up"), Call("ena_up", Return))
     ELSE If(Held("xdp_prog"), Call("ena_destroy_and_free_all_xdp_queues", Return))))
ena_xsk_pool_enable == Simple(
    Try(Return) \o
    Get("xsk_pool", Return) \o
    note_dev_was_up \o
    If(Held("dev_was_up"), Best("ena_down") \o Call("ena_up", Return)))
ena_xsk_pool_disable == Simple(
    note_dev_was_up \o
    If(Held("dev_was_up"), Best("ena_down")) \o
    Put("xsk_pool") \o
    If(Held("dev_was_up"), Call("ena_up", Return)))
ena_xsk_pool_setup == Simple(
    If(Held("xsk_pool"), Call("ena_xsk_pool_disable", Return) \o Leave) \o
    Call("ena_xsk_pool_enable", Return))

\* What the user asks of the tables with ethtool, which asks for a key only where
\* there is one.
ena_indirection_table_set == Simple(
    If(Free("rss_offered"), Deny(Return)) \o
    Call("ena_com_indirect_table_fill_entry", Return) \o
    Call("ena_com_indirect_table_set", Return))
ena_indirection_table_get == Simple(
    If(Free("rss_offered"), Deny(Return)) \o
    If(Maybe, Call("ena_com_indirect_table_get", Return)))
ena_get_rxfh == Simple(
    Call("ena_indirection_table_get", Return) \o
    CallIfAble("ena_com_get_hash_function", Return) \o
    If(Held("hash_key"), Best("ena_com_get_hash_key")))
ena_set_rxfh == Simple(
    If(Maybe, Call("ena_indirection_table_set", Return)) \o
    If(Maybe, Call("ena_com_fill_hash_function", Return)))
ena_get_rss_hash == Simple(Lacks(Return) \o Call("ena_com_get_hash_ctrl", Return))
ena_set_rss_hash == Simple(Lacks(Return) \o Call("ena_com_fill_hash_ctrl", Return))
ena_set_steering_rule ==
    Simple(Lacks(Return) \o Call("ena_com_flow_steering_add_rule", Return))
ena_delete_steering_rule == Simple(Call("ena_com_flow_steering_remove_rule", Return))
ena_get_steering_rule ==
    Simple(Call("ena_com_flow_steering_get_rule", Return) \o Try(Return))
ena_get_all_steering_rules ==
    Simple(If(Free("tbl_size"), Deny(Return)) \o Touch("flow_steering_tbl"))

\* What probe makes once.  A failure in sysfs or debugfs is only logged.
ena_sysfs_init == Simple(Have("sysfs"))
ena_sysfs_terminate == Simple(Put("sysfs"))
ena_debugfs_init == Simple(Have("debugfs"))
ena_debugfs_terminate == Simple(Put("debugfs"))
ena_devlink_alloc == Fn(
    Get("devlink", Return) \o
    Call("ena_devlink_configure_params", "free_devlink"),
    Label("free_devlink", Put("devlink")))
ena_devlink_configure_params == Simple(Get("devlink_params", Return))
ena_devlink_free == Simple(Put("devlink_params") \o Put("devlink"))
ena_devlink_register == Simple(Have("devlink_port") \o Have("devlink_registered"))
ena_devlink_unregister == Simple(Put("devlink_port") \o Put("devlink_registered"))
ena_alloc_stats_buffers == Fn(
    Get("base_strings_buf", "err_allocation") \o
    Get("queue_strings_buf", "err_allocation") \o
    Get("base_data_buf", "err_allocation") \o
    Get("queue_data_buf", "err_allocation"),
    Label("err_allocation", Best("ena_free_stats_buffers")))
ena_free_stats_buffers == Simple(
    Touch("netdev") \o
    PutIfHeld("queue_data_buf") \o PutIfHeld("base_data_buf") \o
    PutIfHeld("queue_strings_buf") \o PutIfHeld("base_strings_buf"))
ena_release_bars == Simple(Put("bars"))
ena_probe_memory ==
    Get("pci", Return) \o
    Try("err_disable_device") \o
    Get("ena_dev", "err_disable_device") \o
    Get("bars", "err_free_ena_dev") \o
    Try("err_free_region") \o
    Get("netdev", "err_free_region") \o
    Call("ena_phc_alloc", "err_netdev_destroy") \o
    Call("ena_com_allocate_customer_metrics_buffer", "err_free_phc") \o
    Call("ena_map_llq_mem_bar", "err_metrics_destroy") \o
    Call("ena_devlink_alloc", "err_metrics_destroy")
ena_probe_device ==
    Call("ena_device_init", "ena_devlink_destroy") \o
    Try("err_device_destroy") \o
    Call("ena_com_init_interrupt_moderation", "err_device_destroy") \o
    Call("ena_enable_msix_and_set_admin_interrupts", "err_worker_destroy") \o
    Best("ena_sysfs_init") \o
    CallIfAble("ena_rss_init_default", "err_terminate_sysfs") \o
    CallIfAble("ena_com_flow_steering_init", "err_rss") \o
    Get("netdev_registered", "err_flow_steering") \o
    Best("ena_config_debug_area") \o
    Best("ena_alloc_stats_buffers") \o
    Best("ena_debugfs_init") \o
    Have("timer") \o
    Set("DEVICE_RUNNING") \o
    Best("ena_devlink_register")
ena_probe_undo ==
    Label("err_flow_steering", Best("ena_com_flow_steering_destroy")) \o
    Label("err_rss", Best("ena_com_rss_destroy")) \o
    Label("err_terminate_sysfs", Best("ena_sysfs_terminate")) \o
    Best("ena_com_dev_reset") \o
    Best("ena_com_set_admin_running_state") \o
    Best("ena_free_mgmnt_irq") \o
    Best("ena_disable_msix") \o
    Label("err_worker_destroy", PutIfHeld("timer")) \o
    Label("err_device_destroy", Best("ena_com_delete_host_info")) \o
    Best("ena_com_admin_destroy") \o
    Label("ena_devlink_destroy", Best("ena_devlink_free")) \o
    Label("err_metrics_destroy", Best("ena_com_delete_customer_metrics_buffer")) \o
    Label("err_free_phc", Best("ena_phc_free")) \o
    Label("err_netdev_destroy", Put("netdev")) \o
    Label("err_free_region", Best("ena_release_bars")) \o
    Label("err_free_ena_dev", Put("ena_dev")) \o
    Label("err_disable_device", Put("pci"))
ena_probe == Fn(ena_probe_memory \o ena_probe_device, ena_probe_undo)
__ena_shutoff(shutdown) == Simple(
    PutIfHeld("rx_cpu_rmap") \o
    Best("ena_sysfs_terminate") \o
    Best("ena_debugfs_terminate") \o
    PutIfHeld("timer") \o
    Best("ena_destroy_device_gracefully") \o
    Best("ena_phc_free") \o
    Best("ena_devlink_unregister") \o
    Best("ena_devlink_free") \o
    (IF shutdown THEN Best("ena_close")
     ELSE Best("ena_close") \o
          If(Held("xdp_prog"), Best("ena_xdp_remove")) \o
          If(Held("xsk_pool"), Best("ena_xsk_pool_disable")) \o
          Put("netdev_registered") \o Put("netdev")) \o
    Best("ena_com_rss_destroy") \o
    Best("ena_com_flow_steering_destroy") \o
    Touch("netdev") \o Best("ena_reset_reason_info_free") \o
    Best("ena_com_delete_debug_area") \o
    Best("ena_free_stats_buffers") \o
    Best("ena_com_delete_host_info") \o
    Best("ena_com_delete_customer_metrics_buffer") \o
    Best("ena_release_bars") \o
    Put("pci") \o
    Put("ena_dev"))

\* The code above by name; a function with a parameter once for each value.
LinuxOwnCode ==
    [ena_setup_tx_resources |-> ena_setup_tx_resources,
     ena_free_tx_resources |-> ena_free_tx_resources,
     ena_setup_all_tx_resources |-> ena_setup_all_tx_resources,
     ena_free_all_io_tx_resources |-> ena_free_all_io_tx_resources,
     ena_setup_rx_resources |-> ena_setup_rx_resources,
     ena_free_rx_resources |-> ena_free_rx_resources,
     ena_setup_all_rx_resources |-> ena_setup_all_rx_resources,
     ena_free_all_io_rx_resources |-> ena_free_all_io_rx_resources,
     ena_free_rx_bufs |-> ena_free_rx_bufs, ena_refill_all_rx_bufs |-> ena_refill_all_rx_bufs,
     ena_free_all_rx_bufs |-> ena_free_all_rx_bufs, ena_free_tx_bufs |-> ena_free_tx_bufs,
     ena_free_all_tx_bufs |-> ena_free_all_tx_bufs,
     ena_destroy_all_tx_queues |-> ena_destroy_all_tx_queues,
     ena_destroy_all_rx_queues |-> ena_destroy_all_rx_queues,
     ena_destroy_all_io_queues |-> ena_destroy_all_io_queues,
     ena_create_io_tx_queue |-> ena_create_io_tx_queue,
     ena_create_all_io_tx_queues |-> ena_create_all_io_tx_queues,
     ena_create_io_rx_queue |-> ena_create_io_rx_queue,
     ena_create_all_io_rx_queues |-> ena_create_all_io_rx_queues,
     ena_xdp_register_rxq_info |-> ena_xdp_register_rxq_info,
     ena_xdp_unregister_rxq_info |-> ena_xdp_unregister_rxq_info,
     ena_create_page_pool |-> ena_create_page_pool,
     ena_create_page_caches |-> ena_create_page_caches,
     ena_free_ring_page_cache |-> ena_free_ring_page_cache,
     ena_free_ring_cache_pages |-> ena_free_ring_cache_pages,
     ena_free_all_cache_pages |-> ena_free_all_cache_pages,
     ena_free_page_caches |-> ena_free_page_caches,
     create_queues_with_size_backoff |-> create_queues_with_size_backoff,
     ena_init_rx_cpu_rmap |-> ena_init_rx_cpu_rmap, ena_enable_msix |-> ena_enable_msix,
     ena_disable_msix |-> ena_disable_msix, ena_request_mgmnt_irq |-> ena_request_mgmnt_irq,
     ena_free_mgmnt_irq |-> ena_free_mgmnt_irq, ena_request_io_irq |-> ena_request_io_irq,
     ena_free_io_irq |-> ena_free_io_irq,
     ena_disable_io_intr_sync |-> ena_disable_io_intr_sync, ena_init_napi |-> ena_init_napi,
     ena_del_napi |-> ena_del_napi, ena_napi_enable |-> ena_napi_enable,
     ena_napi_disable |-> ena_napi_disable,
     ena_enable_msix_and_set_admin_interrupts |-> ena_enable_msix_and_set_admin_interrupts,
     ena_rss_init_default |-> ena_rss_init_default, ena_rss_configure |-> ena_rss_configure,
     ena_change_mtu |-> ena_change_mtu,
     ena_up_complete |-> ena_up_complete, ena_up |-> ena_up,
     reset_if_triggered |-> reset_if_triggered, ena_down |-> ena_down, ena_open |-> ena_open,
     ena_close |-> ena_close, ena_phc_alloc |-> ena_phc_alloc, ena_phc_free |-> ena_phc_free,
     ena_phc_register |-> ena_phc_register, ena_phc_unregister |-> ena_phc_unregister,
     ena_phc_init |-> ena_phc_init, ena_phc_destroy |-> ena_phc_destroy,
     ena_config_host_info |-> ena_config_host_info,
     ena_config_debug_area |-> ena_config_debug_area,
     ena_reset_reason_info_free |-> ena_reset_reason_info_free,
     ena_set_queues_placement_policy |-> ena_set_queues_placement_policy,
     ena_map_llq_mem_bar |-> ena_map_llq_mem_bar, ena_device_init |-> ena_device_init,
     ena_destroy_device |-> ena_destroy_device(FALSE),
     ena_destroy_device_gracefully |-> ena_destroy_device(TRUE),
     ena_flow_steering_restore |-> ena_flow_steering_restore,
     ena_configure_hw_timestamping |-> ena_configure_hw_timestamping,
     ena_restore_device |-> ena_restore_device, ena_reset_device |-> ena_reset_device,
     check_for_admin_com_state |-> check_for_admin_com_state,
     ena_fw_reset_device |-> ena_fw_reset_device, ena_suspend |-> ena_suspend,
     ena_resume |-> ena_resume, ena_devlink_reload_down |-> ena_devlink_reload_down,
     ena_devlink_reload_up |-> ena_devlink_reload_up, ena_large_llq_set |-> ena_large_llq_set,
     ena_update_queue_params |-> ena_update_queue_params(FALSE),
     ena_update_llq_header |-> ena_update_queue_params(TRUE),
     ena_update_queue_count |-> ena_update_queue_count,
     ena_set_lpc_state |-> ena_set_lpc_state,
     ena_set_timestamp_config_internal |-> ena_set_timestamp_config_internal,
     ena_destroy_and_free_all_xdp_queues |-> ena_destroy_and_free_all_xdp_queues,
     ena_xdp_set |-> ena_xdp_set(TRUE), ena_xdp_remove |-> ena_xdp_set(FALSE),
     ena_xsk_pool_enable |-> ena_xsk_pool_enable,
     ena_xsk_pool_disable |-> ena_xsk_pool_disable, ena_xsk_pool_setup |-> ena_xsk_pool_setup,
     ena_indirection_table_set |-> ena_indirection_table_set,
     ena_indirection_table_get |-> ena_indirection_table_get, ena_get_rxfh |-> ena_get_rxfh,
     ena_set_rxfh |-> ena_set_rxfh, ena_get_rss_hash |-> ena_get_rss_hash,
     ena_set_rss_hash |-> ena_set_rss_hash, ena_set_steering_rule |-> ena_set_steering_rule,
     ena_delete_steering_rule |-> ena_delete_steering_rule,
     ena_get_steering_rule |-> ena_get_steering_rule,
     ena_get_all_steering_rules |-> ena_get_all_steering_rules,
     ena_sysfs_init |-> ena_sysfs_init, ena_sysfs_terminate |-> ena_sysfs_terminate,
     ena_debugfs_init |-> ena_debugfs_init, ena_debugfs_terminate |-> ena_debugfs_terminate,
     ena_devlink_alloc |-> ena_devlink_alloc,
     ena_devlink_configure_params |-> ena_devlink_configure_params,
     ena_devlink_free |-> ena_devlink_free, ena_devlink_register |-> ena_devlink_register,
     ena_devlink_unregister |-> ena_devlink_unregister,
     ena_alloc_stats_buffers |-> ena_alloc_stats_buffers,
     ena_free_stats_buffers |-> ena_free_stats_buffers, ena_release_bars |-> ena_release_bars,
     ena_probe |-> ena_probe, ena_remove |-> __ena_shutoff(FALSE),
     ena_shutdown |-> __ena_shutoff(TRUE)]

LinuxCode == HalCode @@ LinuxOwnCode

\* What the driver owns in each phase, and what it may own besides: what its
\* device or its build offers, what it does without when memory is short, and
\* what the user asked for.
LinuxProbed == {"pci", "ena_dev", "bars", "netdev", "netdev_registered", "phc_info",
    "customer_metrics", "devlink", "devlink_params", "devlink_registered", "sysfs",
    "debugfs"}
LinuxExtra == {"host_info", "debug_area", "reset_info", "base_strings_buf",
    "queue_strings_buf", "base_data_buf", "queue_data_buf", "rss_ind_tbl",
    "host_rss_ind_tbl", "hash_key", "hash_ctrl", "flow_steering_tbl",
    "requested_rule", "rule", "xsk_pool", "ptp_clock"}
LinuxRunning == LinuxProbed \cup {"devlink_port", "timer", "mmio_read", "comp_ctx",
    "admin_sq", "admin_cq", "aenq", "msix", "mgmnt_irq"}
LinuxQueues == {"tx_buffer_info", "tx_free_ids", "push_buf", "rx_buffer_info",
    "rx_free_ids", "page_pool", "io_sq_mem", "io_cq_mem", "device_sq", "device_cq",
    "napi", "napi_enabled", "io_irq"}
LinuxOwns ==
    [absent |-> {}, off |-> {"netdev", "netdev_registered"},
     down |-> LinuxRunning, up |-> LinuxRunning \cup LinuxQueues \cup {"aenq_armed"},
     asleep |-> LinuxProbed, reloading |-> LinuxProbed, broken |-> LinuxProbed]
LinuxMayOwn ==
    [absent |-> {"mmio_read", "phc_mem", "ptp_clock"}, off |-> {"xsk_pool", "ptp_clock"},
     down |-> LinuxExtra \cup {"phc_mem", "rx_cpu_rmap", "device_rule", "aenq_armed"},
     up |-> LinuxExtra \cup {"phc_mem", "rx_cpu_rmap", "device_rule", "xdp_rxq"},
     asleep |-> LinuxExtra \cup {"devlink_port"}, reloading |-> LinuxExtra,
     broken |-> LinuxExtra \cup {"devlink_port"}]
LinuxEthtool == {"ena_get_rxfh", "ena_set_rxfh", "ena_get_rss_hash", "ena_set_rss_hash",
    "ena_delete_steering_rule", "ena_get_steering_rule", "ena_get_all_steering_rules"}
\* Bound: a steering rule and XDP are not configured together.
LinuxEntries ==
    {Entry("ena_probe", {"absent", "off"}, "as is", "absent"),
     Entry("ena_open", {"down", "broken"}, "as is", "as is"),
     Entry("ena_suspend", {"down", "up", "broken"}, "asleep", "asleep"),
     Entry("ena_resume", {"asleep"}, "as is", "as is"),
     Entry("ena_devlink_reload_down", {"down", "up", "broken"}, "reloading", "reloading"),
     Entry("ena_devlink_reload_up", {"reloading"}, "as is", "as is"),
     Entry("ena_remove", {"down", "up", "broken"}, "absent", "absent"),
     Entry("ena_shutdown", {"down", "up", "broken"}, "off", "off")} \cup
    {Entry(f, {"down", "up", "broken"}, "as is", "as is") : f \in
        {"ena_close", "ena_reset_device", "check_for_admin_com_state",
         "ena_fw_reset_device", "ena_update_queue_params", "ena_update_llq_header",
         "ena_update_queue_count", "ena_set_timestamp_config_internal",
         "ena_xdp_remove", "ena_large_llq_set"} \cup LinuxEthtool} \cup
    {[Entry(f, {"down", "up", "broken"}, "as is", "as is") EXCEPT !.needs = {Free("rule")}] :
        f \in {"ena_xdp_set", "ena_xsk_pool_setup"}} \cup
    {[Entry("ena_set_steering_rule", {"down", "up", "broken"}, "as is", "as is")
        EXCEPT !.needs = {Free("xdp_prog"), Free("xsk_pool")}]}

\* What the code is known to get wrong (see the README): an operation or a phase,
\* and the resource.
LinuxRestores == {"ena_fw_reset_device", "ena_close", "ena_resume",
    "ena_devlink_reload_up", "ena_update_queue_params", "ena_update_llq_header",
    "ena_update_queue_count", "ena_set_timestamp_config_internal", "ena_large_llq_set"}
LinuxExcused ==
    {"ena_probe", "ena_remove", "ena_shutdown", "absent", "off"} \X {"ptp_clock"}
    \cup {<<"ena_remove", "netdev">>}
    \cup {"ena_get_rxfh", "ena_set_rxfh"} \X {"rss_ind_tbl", "host_rss_ind_tbl", "hash_key"}
    \cup {"ena_get_rss_hash", "ena_set_rss_hash"} \X {"hash_ctrl"}
    \cup LinuxRestores \X {"host_info", "aenq_armed"}
    \cup {"ena_devlink_reload_down", "ena_large_llq_set", "ena_suspend"} \X {"device_sq", "device_cq"}

Linux ==
    [entries |-> LinuxEntries,
     phases |-> DOMAIN LinuxOwns, owns |-> LinuxOwns, mayOwn |-> LinuxMayOwn,
     features |-> {{"page_pool", "phc"}},
     flags |-> HalFlags \cup {"DEV_UP", "DEVICE_RUNNING", "TRIGGER_RESET", "MSIX_ENABLED",
               "dev_up_before_reset", "dev_was_up", "xdp_prog", "dim_work", "rx_bufs",
               "tx_bufs"},
     locals |-> {"dev_was_up"},
     up |-> "DEV_UP", alive |-> "DEVICE_RUNNING",
     accepts |-> HalAccepts, running |-> "ADMIN_RUNNING",
     onDevice |-> HalOnDevice,
     base |-> HalBase @@
        [mgmnt_irq |-> {{"msix"}}, io_irq |-> {{"msix"}}, napi_enabled |-> {{"napi"}},
         xdp_rxq |-> {{"page_pool"}}, ptp_clock |-> {{"phc_info"}}],
     objects |->
        {{"rule", "device_rule"},
         {"tx_buffer_info", "tx_free_ids", "push_buf"}, {"rx_buffer_info", "rx_free_ids"},
         {"rss_ind_tbl", "host_rss_ind_tbl", "hash_ctrl"}, {"debug_area", "reset_info"},
         {"base_strings_buf", "queue_strings_buf", "base_data_buf", "queue_data_buf"},
         {"comp_ctx", "admin_sq", "admin_cq", "aenq"}},
     givenUp |-> {"device_rule", "device_sq", "device_cq"},
     excused |-> LinuxExcused]
=============================================================================
